---- MODULE Spec2Model ----
(***************************************************************************)
(* Conway's Arcade: the cellular-automaton engine (double-buffered B3/S23   *)
(* grid), its throttled update cadence, the pattern-driven entities of the  *)
(* game loop, the masked-grid renderer and the pre-baked gradient cache.     *)
(*                                                                          *)
(* Engine instances are records; an entity owns one (player.gol, obs.gol,   *)
(* cloud.gol).  A grid buffer is a function from the cell <<x, y>> to       *)
(* DEAD / ALIVE, indexed like the 2-D arrays current[x][y] of the code.     *)
(***************************************************************************)
EXTENDS Integers, Sequences, FiniteSets

VARIABLES
    phase,        \* state.phase
    gol,          \* the automaton of the entity under observation (player.gol)
    frameCount,   \* state.frameCount, the host tick counter
    pre,          \* history: gol as it was when the last operation started
    afterStep,    \* history: gol.current right after updateThrottled, before the correction
    drawn,        \* the cells for which the last renderMaskedGrid emitted a rectangle
    seed,         \* history: how the grid was seeded (pattern name, offset, and the
                  \* seeded grid, or the empty grid a random seeding drew onto)
    state,        \* state.score, spawnTimer, cloudSpawnTimer, gameSpeed
    obstacles,    \* the obstacle entities, in spawn order
    clouds,       \* the parallax clouds, in spawn order
    particles,    \* the explosion particles, in spawn order
    playerMotion, \* player.y, player.vy, player.onGround
    maskedRenderer,   \* the SimpleGradientRenderer of the page
    GAMEOVER_CONFIG,  \* MIN_DELAY and MAX_WAIT of the death animation, in frames
    cache,        \* the GradientCache instance under observation
    twin,         \* a second GradientCache, built with the same arguments
    perlin,       \* p5's global noise state: the seed of the last noiseSeed()
    ret           \* history: the last call on the cache or the grid, and its outcome

vars == <<phase, gol, frameCount, pre, afterStep, drawn, seed, state, obstacles, clouds,
          particles, playerMotion, maskedRenderer, GAMEOVER_CONFIG, cache, twin, perlin,
          ret>>

\* ------------------------------------------------------------------ bounds
MaxCols == 3
MaxRows == 3
MaxCells == 9
MaxGen == 2
MaxPatternDim == 5
MaxPatternGen == 4
MaxTick == 24
MaxGap == 13
PlayerDim == 3
MaxFrame == 60
MaxGameFrame == 122
MaxCacheSize == 2
MaxCoord == 4
MaxGridDim == 3
MaxGridCells == 4
MaxGridGen == 1
MaxPhase == 3
MaxStaticTick == 12
MaxRunFrame == 140
MaxRestarts == 1
MaxRerunFrame == 6
MaxSpawnFrame == 125
MaxLookupSize == 3
MaxQuarter == 26

\* --------------------------------------------------------------- constants
DEAD == 0
ALIVE == 1
HostTicksPerSecond == 60
\* Positions and speeds of the game entities are counted in 1/Scale pixel, which
\* makes gameSpeed (1 + 0.0015 per frame) and the cloud speed (-1.5) integers.
Scale == 10000

\* ------------------------------------------------------------------- grids
Cells(c, r) == (0 .. c - 1) \X (0 .. r - 1)

create2DArray(c, r) == [p \in Cells(c, r) |-> DEAD]

AliveCells(grid) == {p \in DOMAIN grid : grid[p] = ALIVE}

\* new GoLEngine(cols, rows, updateRateFPS): both buffers dead, nothing stepped yet.
GoLEngine(c, r, fps) ==
    [cols |-> c, rows |-> r, updateRateFPS |-> fps,
     current |-> create2DArray(c, r), next |-> create2DArray(c, r),
     generation |-> 0, lastUpdateFrame |-> 0]

\* The eight neighbour offsets, in the order of the dx / dy loops.
NeighbourOffsets ==
    << <<-1, -1>>, <<-1, 0>>, <<-1, 1>>, <<0, -1>>,
       <<0, 1>>, <<1, -1>>, <<1, 0>>, <<1, 1>> >>

RECURSIVE countFrom(_, _, _, _, _, _)
countFrom(grid, x, y, c, r, i) ==
    IF i > Len(NeighbourOffsets) THEN 0
    ELSE LET nx == x + NeighbourOffsets[i][1]
             ny == y + NeighbourOffsets[i][2]
             inside == nx >= 0 /\ nx < c /\ ny >= 0 /\ ny < r
         IN  (IF inside /\ grid[<<nx, ny>>] = ALIVE THEN 1 ELSE 0)
             + countFrom(grid, x, y, c, r, i + 1)

RECURSIVE countWrapFrom(_, _, _, _, _, _)
countWrapFrom(grid, x, y, c, r, i) ==
    IF i > Len(NeighbourOffsets) THEN 0
    ELSE LET nx == (x + NeighbourOffsets[i][1] + c) % c
             ny == (y + NeighbourOffsets[i][2] + r) % r
         IN  (IF grid[<<nx, ny>>] = ALIVE THEN 1 ELSE 0)
             + countWrapFrom(grid, x, y, c, r, i + 1)

\* Mutant: toroidal edges (neighbours wrap around the grid).
countLiveNeighborsWrap(grid, x, y, c, r) == countWrapFrom(grid, x, y, c, r, 1)

\* Alive cells among the 8 adjacent ones; a neighbour outside the grid is dead.
countLiveNeighbors(grid, x, y, c, r) == countFrom(grid, x, y, c, r, 1)

\* Mutant: survival on 3 neighbours is forgotten (B3/S2).
applyB3S2Rules(cell, n) ==
    IF cell = ALIVE
    THEN (IF n = 2 THEN ALIVE ELSE DEAD)
    ELSE (IF n = 3 THEN ALIVE ELSE DEAD)

\* Mutant: survival on 2 neighbours is forgotten (B3/S3).
applyB3S3Rules(cell, n) ==
    IF cell = ALIVE
    THEN (IF n = 3 THEN ALIVE ELSE DEAD)
    ELSE (IF n = 3 THEN ALIVE ELSE DEAD)

\* Mutant: a dead cell is also born on 2 neighbours (B23/S23).
applyB23S23Rules(cell, n) ==
    IF cell = ALIVE
    THEN (IF n = 2 \/ n = 3 THEN ALIVE ELSE DEAD)
    ELSE (IF n = 2 \/ n = 3 THEN ALIVE ELSE DEAD)

\* B3/S23: birth on exactly 3, survival on 2 or 3, death otherwise.
applyB3S23Rules(cell, n) ==
    IF cell = ALIVE
    THEN (IF n = 2 \/ n = 3 THEN ALIVE ELSE DEAD)
    ELSE (IF n = 3 THEN ALIVE ELSE DEAD)

\* The cell loop of one generation: cell i (x outer, y inner) of `nxt` is written
\* from the neighbourhood read in `cur`.
RECURSIVE computeNext(_, _, _, _, _)
computeNext(cur, nxt, c, r, i) ==
    IF i >= c * r THEN nxt
    ELSE LET x == i \div r
             y == i % r
             n == countLiveNeighbors(cur, x, y, c, r)
         IN  computeNext(cur,
                         [nxt EXCEPT ![<<x, y>>] = applyB3S23Rules(cur[<<x, y>>], n)],
                         c, r, i + 1)

\* The same loop on a single buffer: a cell already rewritten is read back.
RECURSIVE computeInPlace(_, _, _, _)
computeInPlace(buf, c, r, i) ==
    IF i >= c * r THEN buf
    ELSE LET x == i \div r
             y == i % r
             n == countLiveNeighbors(buf, x, y, c, r)
         IN  computeInPlace([buf EXCEPT ![<<x, y>>] = applyB3S23Rules(buf[<<x, y>>], n)],
                            c, r, i + 1)

\* Mutant: one generation computed in place, without the second buffer.
StepInPlace(e) ==
    [e EXCEPT !.current = computeInPlace(e.current, e.cols, e.rows, 0),
              !.next = e.current,
              !.generation = e.generation + 1]

\* step(): fill the next buffer from the current one, then swap the two.
Step(e) ==
    [e EXCEPT !.current = computeNext(e.current, e.next, e.cols, e.rows, 0),
              !.next = e.current,
              !.generation = e.generation + 1]

\* --------------------------------------------------- reference semantics
\* The B3/S23 successor stated cell by cell over the set of alive neighbours.
Adjacent(p, q) ==
    /\ p # q
    /\ p[1] - q[1] \in -1 .. 1
    /\ p[2] - q[2] \in -1 .. 1

NeighbourCount(grid, p) == Cardinality({q \in DOMAIN grid : Adjacent(p, q) /\ grid[q] = ALIVE})

Successor(grid) ==
    [p \in DOMAIN grid |->
        IF \/ grid[p] = DEAD /\ NeighbourCount(grid, p) = 3
           \/ grid[p] = ALIVE /\ NeighbourCount(grid, p) \in {2, 3}
        THEN ALIVE ELSE DEAD]


\* The game's own state, idle while a single automaton is observed.
gameVars == <<state, obstacles, clouds, particles, playerMotion, maskedRenderer,
              GAMEOVER_CONFIG>>

\* The values of the page's globals before setup() has run.
NoMotion == [y |-> 0, vy |-> 0, onGround |-> TRUE]

NoRenderer == [animationOffset |-> 0, useCache |-> FALSE, palette |-> <<>>]

NoConfig == [MIN_DELAY |-> 0, MAX_WAIT |-> 0]

NoGame ==
    /\ state = [score |-> 0, spawnTimer |-> 0, cloudSpawnTimer |-> 0, gameSpeed |-> Scale]
    /\ obstacles = <<>>
    /\ clouds = <<>>
    /\ particles = <<>>
    /\ playerMotion = NoMotion
    /\ maskedRenderer = NoRenderer
    /\ GAMEOVER_CONFIG = NoConfig

\* The gradient cache, idle while an automaton or the game is observed.
cacheVars == <<cache, twin, perlin, ret>>

\* No GradientCache object: the value of a variable that holds none.
NoInstance ==
    [exists |-> FALSE, cacheSize |-> 0, noiseScale |-> 0, palette |-> <<>>,
     cacheTexture |-> "null", cachePixels |-> <<>>,
     seed |-> 0]        \* history: the seed of the last prebake

NoCall == [op |-> "none", args |-> <<>>, threw |-> FALSE, value |-> <<>>, sampled |-> 0]

NoCache ==
    /\ cache = NoInstance
    /\ twin = NoInstance
    /\ perlin = [seed |-> 0]
    /\ ret = NoCall

\* ------------------------------------------------- the engine on any grid
\* Every grid size up to the bounds and every cell configuration of it.
InitEngine ==
    /\ \E c \in 1 .. MaxCols, r \in 1 .. MaxRows :
         /\ c * r <= MaxCells
         /\ \E g \in [Cells(c, r) -> {DEAD, ALIVE}] :
               gol = [GoLEngine(c, r, 10) EXCEPT !.current = g]
    /\ phase = "PLAYING"
    /\ frameCount = 0
    /\ pre = gol
    /\ afterStep = gol.current
    /\ drawn = {}
    /\ NoGame
    /\ NoCache
    /\ seed = [name |-> "none", x |-> 0, y |-> 0, grid |-> gol.current]

EngineStep ==
    /\ gol.generation < MaxGen
    /\ pre' = gol
    /\ gol' = Step(gol)
    /\ afterStep' = gol'.current
    /\ UNCHANGED <<phase, frameCount, drawn, seed, gameVars, cacheVars>>

NextEngine == EngineStep

SpecEngine == InitEngine /\ [][NextEngine]_vars

\* C1: one step() yields exactly the B3/S23 successor with dead (bounded) edges:
\* a cell is alive afterwards iff it was dead with exactly 3 alive neighbours or
\* alive with 2 or 3, neighbours outside the grid counting as dead.
C1_StepIsB3S23 ==
    gol.generation > 0 =>
        /\ gol.generation = pre.generation + 1
        /\ gol.current = Successor(pre.current)
        /\ DOMAIN gol.current = Cells(gol.cols, gol.rows)

\* C1 witness: a step on a full-width grid where a birth, a survival, a death at
\* the edge all happened.
C1_Witness ==
    /\ gol.generation > 0
    /\ gol.cols = MaxCols /\ gol.rows = MaxRows
    /\ \E p \in DOMAIN gol.current : pre.current[p] = DEAD /\ gol.current[p] = ALIVE
    /\ \E p \in DOMAIN gol.current : pre.current[p] = ALIVE /\ gol.current[p] = ALIVE
    /\ pre.current[<<0, 0>>] = ALIVE /\ gol.current[<<0, 0>>] = DEAD

\* C10: stepping an all-dead grid any number of times leaves it all-dead, and
\* step() never makes a dead cell alive unless it had exactly 3 alive neighbours.
C10_NoSpontaneousBirth ==
    /\ AliveCells(seed.grid) = {} => AliveCells(gol.current) = {}
    /\ gol.generation > 0 =>
          \A p \in DOMAIN gol.current :
             pre.current[p] = DEAD /\ gol.current[p] = ALIVE
                => NeighbourCount(pre.current, p) = 3

\* C10 witness: an all-dead grid of the largest size after the last step.
C10_Witness ==
    /\ gol.generation = MaxGen
    /\ gol.cols = MaxCols /\ gol.rows = MaxRows
    /\ AliveCells(seed.grid) = {}
    /\ AliveCells(gol.current) = {}

\* ------------------------------------------------------- pattern library
Pattern(n, w, h, cs) == [name |-> n, width |-> w, height |-> h, cells |-> cs]

Patterns ==
    [BLOCK   |-> Pattern("BLOCK", 2, 2, {<<0, 0>>, <<1, 0>>, <<0, 1>>, <<1, 1>>}),
     BEEHIVE |-> Pattern("BEEHIVE", 4, 3,
                    {<<1, 0>>, <<2, 0>>, <<0, 1>>, <<3, 1>>, <<1, 2>>, <<2, 2>>}),
     LOAF    |-> Pattern("LOAF", 4, 4,
                    {<<1, 0>>, <<2, 0>>, <<0, 1>>, <<3, 1>>, <<1, 2>>, <<3, 2>>, <<2, 3>>}),
     BOAT    |-> Pattern("BOAT", 3, 3, {<<0, 0>>, <<1, 0>>, <<0, 1>>, <<2, 1>>, <<1, 2>>}),
     TUB     |-> Pattern("TUB", 3, 3, {<<1, 0>>, <<0, 1>>, <<2, 1>>, <<1, 2>>}),
     BLINKER |-> Pattern("BLINKER", 3, 1, {<<0, 0>>, <<1, 0>>, <<2, 0>>}),
     TOAD    |-> Pattern("TOAD", 4, 2,
                    {<<1, 0>>, <<2, 0>>, <<3, 0>>, <<0, 1>>, <<1, 1>>, <<2, 1>>}),
     BEACON  |-> Pattern("BEACON", 4, 4,
                    {<<0, 0>>, <<1, 0>>, <<0, 1>>, <<1, 1>>,
                     <<2, 2>>, <<3, 2>>, <<2, 3>>, <<3, 3>>}),
     GLIDER  |-> Pattern("GLIDER", 3, 3, {<<1, 0>>, <<2, 1>>, <<0, 2>>, <<1, 2>>, <<2, 2>>})]

PatternName == DOMAIN Patterns

\* setPattern / seedPattern: OR the pattern's live cells into the current buffer
\* at the offset; a cell that falls outside the grid is dropped.
\* A seeding that wraps the translated cells around the edges instead of
\* dropping them.
setPatternWrapping(e, pattern, startX, startY) ==
    [e EXCEPT !.current =
        [p \in Cells(e.cols, e.rows) |->
            IF \E q \in pattern.cells :
                  p = <<(q[1] + startX) % e.cols, (q[2] + startY) % e.rows>>
            THEN ALIVE ELSE e.current[p]]]

setPattern(e, pattern, startX, startY) ==
    [e EXCEPT !.current =
        [p \in Cells(e.cols, e.rows) |->
            IF \E q \in pattern.cells : p = <<q[1] + startX, q[2] + startY>>
            THEN ALIVE ELSE e.current[p]]]

\* The whole pattern box lies inside the grid at this offset.
Fits(e, pattern, x, y) ==
    /\ x >= 0 /\ x + pattern.width <= e.cols
    /\ y >= 0 /\ y + pattern.height <= e.rows

\* ------------------------------------------- the engine on seeded patterns
\* A fresh grid of any size up to the bound, one library pattern seeded at any
\* offset (offsets that clip the pattern included).
InitPattern ==
    /\ \E c \in 1 .. MaxPatternDim, r \in 1 .. MaxPatternDim, n \in PatternName :
         \E x \in -1 .. c - 1, y \in -1 .. r - 1 :
            /\ gol = setPattern(GoLEngine(c, r, 10), Patterns[n], x, y)
            /\ seed = [name |-> n, x |-> x, y |-> y, grid |-> gol.current]
    /\ phase = "PLAYING"
    /\ frameCount = 0
    /\ pre = gol
    /\ afterStep = gol.current
    /\ drawn = {}
    /\ NoGame
    /\ NoCache

PatternStep ==
    /\ gol.generation < MaxPatternGen
    /\ pre' = gol
    /\ gol' = Step(gol)
    /\ afterStep' = gol'.current
    /\ UNCHANGED <<phase, frameCount, drawn, seed, gameVars, cacheVars>>

NextPattern == PatternStep

SpecPattern == InitPattern /\ [][NextPattern]_vars

Translate(cs, dx, dy) == {<<p[1] + dx, p[2] + dy>> : p \in cs}

\* The two orientations of a blinker seeded at (x, y).
BlinkerHorizontal(x, y) == {<<x, y>>, <<x + 1, y>>, <<x + 2, y>>}
BlinkerVertical(x, y) == {<<x + 1, y - 1>>, <<x + 1, y>>, <<x + 1, y + 1>>}

RoomForBlinker ==
    /\ seed.name = "BLINKER"
    /\ Fits(gol, Patterns.BLINKER, seed.x, seed.y)
    /\ seed.y >= 1 /\ seed.y + 1 < gol.rows

\* C7: a BLINKER in a grid that holds both orientations is vertical after every
\* odd number of steps and horizontal (its original cells) after every even
\* number: it changes on every step and is back after exactly 2.
C7_BlinkerPeriod2 ==
    RoomForBlinker =>
        /\ gol.generation % 2 = 0 =>
               /\ gol.current = seed.grid
               /\ AliveCells(gol.current) = BlinkerHorizontal(seed.x, seed.y)
        /\ gol.generation % 2 = 1 =>
               /\ gol.current # seed.grid
               /\ AliveCells(gol.current) = BlinkerVertical(seed.x, seed.y)
        /\ gol.generation > 0 => gol.current # pre.current

\* C7 witness: the blinker back in its original cells after 2 steps, having
\* been vertical in between.
C7_Witness ==
    /\ RoomForBlinker
    /\ gol.generation = 2
    /\ AliveCells(pre.current) = BlinkerVertical(seed.x, seed.y)
    /\ AliveCells(gol.current) = BlinkerHorizontal(seed.x, seed.y)

BlockInside == seed.name = "BLOCK" /\ Fits(gol, Patterns.BLOCK, seed.x, seed.y)

\* C8: a grid holding only a BLOCK is unchanged by any number of steps, also
\* when the block touches an edge or a corner of the grid.
C8_BlockStill ==
    BlockInside =>
        /\ gol.current = seed.grid
        /\ AliveCells(gol.current) = Translate(Patterns.BLOCK.cells, seed.x, seed.y)

\* C8 witness: a block in the far corner of a grid, after the last step.
C8_Witness ==
    /\ BlockInside
    /\ gol.generation = MaxPatternGen
    /\ seed.x + 2 = gol.cols /\ seed.y + 2 = gol.rows
    /\ gol.cols > 2 /\ gol.rows > 2
    /\ gol.current = seed.grid

\* Room for the glider and for its box moved by (+1, +1).
RoomForGlider ==
    /\ seed.name = "GLIDER"
    /\ Fits(gol, Patterns.GLIDER, seed.x, seed.y)
    /\ seed.x + Patterns.GLIDER.width + 1 <= gol.cols
    /\ seed.y + Patterns.GLIDER.height + 1 <= gol.rows

\* C9: a GLIDER with free room is, after exactly 4 steps, its original cell
\* configuration translated by (+1, +1).
C9_GliderTranslates ==
    RoomForGlider /\ gol.generation = 4 =>
        AliveCells(gol.current) = Translate(AliveCells(seed.grid), 1, 1)

\* C9 witness: a glider, 4 steps on, moved by (+1, +1) and not where it began.
C9_Witness ==
    /\ RoomForGlider
    /\ gol.generation = 4
    /\ AliveCells(gol.current) = Translate(Translate(Patterns.GLIDER.cells, seed.x, seed.y), 1, 1)
    /\ gol.current # seed.grid

\* ------------------------------------------------------ throttled cadence
\* Mutant: the elapsed intervals are accumulated and caught up in one call.
RECURSIVE updateCatchUp(_, _)
updateCatchUp(e, frame) ==
    IF (frame - e.lastUpdateFrame) * e.updateRateFPS >= HostTicksPerSecond
    THEN updateCatchUp([Step(e) EXCEPT !.lastUpdateFrame =
                            e.lastUpdateFrame + HostTicksPerSecond \div e.updateRateFPS],
                       frame)
    ELSE e

\* updateThrottled(frameCount): one step() when the ticks elapsed since the last
\* step reach hostTicksPerSecond / updateRateFPS, and then the tick is recorded.
updateThrottled(e, frame) ==
    IF (frame - e.lastUpdateFrame) * e.updateRateFPS >= HostTicksPerSecond
    THEN [Step(e) EXCEPT !.lastUpdateFrame = frame]
    ELSE e

\* The update rates the entities are built with.
UpdateRates == {10, 12, 15, 30}

\* ---------------------------------- a looping automaton under tick jitter
\* A looping blinker; the host calls updateThrottled with a tick counter that
\* grows by any gap from 1 to MaxGap between two calls.
InitJitter ==
    /\ \E fps \in UpdateRates :
          gol = setPattern(GoLEngine(3, 3, fps), Patterns.BLINKER, 0, 1)
    /\ seed = [name |-> "BLINKER", x |-> 0, y |-> 1, grid |-> gol.current]
    /\ phase = "PLAYING"
    /\ frameCount = 0
    /\ pre = gol
    /\ afterStep = gol.current
    /\ drawn = {}
    /\ NoGame
    /\ NoCache

JitterAdvance ==
    \E gap \in 1 .. MaxGap :
        /\ frameCount + gap <= MaxTick
        /\ frameCount' = frameCount + gap
        /\ pre' = gol
        /\ gol' = updateThrottled(gol, frameCount')
        /\ afterStep' = gol'.current
        /\ UNCHANGED <<phase, drawn, seed, gameVars, cacheVars>>

NextJitter == JitterAdvance

SpecJitter == InitJitter /\ [][NextJitter]_vars

\* Ticks elapsed, at the last call, since the step before it.
ElapsedAtCall == frameCount - pre.lastUpdateFrame

\* C4: a call of updateThrottled performs at most one step() however many
\* intervals have elapsed since the last step, and none when fewer than
\* hostTicksPerSecond / updateRateFPS ticks have elapsed.
C4_RateLimited ==
    frameCount > 0 =>
        /\ gol.generation \in {pre.generation, pre.generation + 1}
        /\ gol.generation = pre.generation + 1 => gol.current = Successor(pre.current)
        /\ ElapsedAtCall * gol.updateRateFPS < HostTicksPerSecond => gol = pre

\* C4 witness: a call after at least two whole intervals that stepped once.
C4_Witness ==
    /\ frameCount > 0
    /\ ElapsedAtCall * gol.updateRateFPS >= 2 * HostTicksPerSecond
    /\ gol.generation = pre.generation + 1
    /\ gol.current # pre.current

\* ------------------------------------------------------- density helpers
\* Four times the squared distance of a cell from the centre of the grid.
Dist2(p, c, r) == (2 * p[1] - (c - 1)) * (2 * p[1] - (c - 1))
                  + (2 * p[2] - (r - 1)) * (2 * p[2] - (r - 1))

MaxDist2(c, r) == (c - 1) * (c - 1) + (r - 1) * (r - 1)

\* The alive-probability of a cell is 0 / is 1, with the densities in percent:
\* the probability is interpolated from centerDensity (distance 0) to
\* edgeDensity (the farthest corner).
NeverAlive(p, c, r, centerDensity, edgeDensity) ==
    \/ centerDensity = 0 /\ edgeDensity = 0
    \/ edgeDensity = 0 /\ Dist2(p, c, r) = MaxDist2(c, r)
    \/ centerDensity = 0 /\ Dist2(p, c, r) = 0

AlwaysAlive(p, c, r, centerDensity, edgeDensity) ==
    \/ centerDensity = 100 /\ edgeDensity = 100
    \/ edgeDensity = 100 /\ Dist2(p, c, r) = MaxDist2(c, r)
    \/ centerDensity = 100 /\ Dist2(p, c, r) = 0

\* seedRadialDensity: every grid the independent per-cell draws can produce.
seedRadialDensity(e, centerDensity, edgeDensity) ==
    {[e EXCEPT !.current = g] :
        g \in {h \in [Cells(e.cols, e.rows) -> {DEAD, ALIVE}] :
                 \A p \in Cells(e.cols, e.rows) :
                    /\ NeverAlive(p, e.cols, e.rows, centerDensity, edgeDensity)
                          => h[p] = DEAD
                    /\ AlwaysAlive(p, e.cols, e.rows, centerDensity, edgeDensity)
                          => h[p] = ALIVE}}

\* The innermost cells of a grid: one or two per axis.
CoreCells(c, r) == {(c - 1) \div 2, c \div 2} \X {(r - 1) \div 2, r \div 2}

\* applyLifeForce: the core cells are forced alive in the current buffer.
applyLifeForce(e) ==
    [e EXCEPT !.current =
        [p \in Cells(e.cols, e.rows) |->
            IF p \in CoreCells(e.cols, e.rows) THEN ALIVE ELSE e.current[p]]]

\* ----------------------------------------------------------- compositor
PlayerX == 600
PlayerY == 1620
CellSize == 30

Rect(gx, gy, x, y, cellSize) ==
    [px |-> x + gx * cellSize, py |-> y + gy * cellSize, size |-> cellSize]

\* Mutant: the first column is read from the other buffer.
renderMaskedGridTorn(engine, x, y, cellSize) ==
    {Rect(p[1], p[2], x, y, cellSize) :
        p \in {q \in Cells(engine.cols, engine.rows) :
                 IF q[1] = 0 THEN engine.next[q] = ALIVE ELSE engine.current[q] = ALIVE}}

\* renderMaskedGrid: one rectangle for each alive cell of engine.current.
renderMaskedGrid(engine, x, y, cellSize) ==
    {Rect(p[1], p[2], x, y, cellSize) :
        p \in {q \in Cells(engine.cols, engine.rows) : engine.current[q] = ALIVE}}

\* ------------------------------------------ the game loop of the template
\* Mutant: the correction runs before the step.
updatePlayerForceFirst(e, frame) == updateThrottled(applyLifeForce(e), frame)

\* updatePlayer: the throttled update, then the life-force correction.
updatePlayer(e, frame) == applyLifeForce(updateThrottled(e, frame))

\* initGame / setupPlayer: tick 0, a fresh player automaton seeded by radial density.
InitPlayer ==
    /\ phase = "PLAYING"
    /\ frameCount = 0
    /\ \E fps \in {10, 12} :
          gol \in seedRadialDensity(GoLEngine(PlayerDim, PlayerDim, fps), 85, 0)
    /\ seed = [name |-> "radial", x |-> 0, y |-> 0,
               grid |-> create2DArray(PlayerDim, PlayerDim)]
    /\ pre = gol
    /\ afterStep = gol.current
    /\ drawn = {}
    /\ NoGame
    /\ NoCache

\* Mutant: the tick counter is incremented after the update instead of before.
drawLateTick ==
    /\ frameCount < MaxFrame
    /\ frameCount' = frameCount + 1
    /\ pre' = gol
    /\ IF phase = "PLAYING"
       THEN /\ gol' = updatePlayer(gol, frameCount)
            /\ afterStep' = updateThrottled(gol, frameCount).current
       ELSE UNCHANGED <<gol, afterStep>>
    /\ drawn' = renderMaskedGrid(gol', PlayerX, PlayerY, CellSize)
    /\ UNCHANGED <<phase, seed, gameVars, cacheVars>>

\* draw(): count the tick, update the game while PLAYING, render.
draw ==
    /\ frameCount < MaxFrame
    /\ frameCount' = frameCount + 1
    /\ pre' = gol
    /\ IF phase = "PLAYING"
       THEN /\ gol' = updatePlayer(gol, frameCount')
            /\ afterStep' = updateThrottled(gol, frameCount').current
       ELSE UNCHANGED <<gol, afterStep>>
    /\ drawn' = renderMaskedGrid(gol', PlayerX, PlayerY, CellSize)
    /\ UNCHANGED <<phase, seed, gameVars, cacheVars>>

NextPlayer == draw

SpecPlayer == InitPlayer /\ [][NextPlayer]_vars

\* The grid cells behind the rectangles of the last render.
DrawnCells ==
    {<<(rc.px - PlayerX) \div CellSize, (rc.py - PlayerY) \div CellSize>> : rc \in drawn}

\* C2: a step computes the whole new generation from the pre-step buffer (the
\* old generation is left intact in the other buffer by the swap), and what a
\* render reads is one complete generation, the one before or the one after
\* the update of the frame, never a mix of the two.
C2_NoTornRead ==
    frameCount > 0 =>
        /\ \/ DrawnCells = AliveCells(gol.current)
           \/ DrawnCells = AliveCells(pre.current)
        /\ gol.generation = pre.generation + 1 =>
              /\ afterStep = Successor(pre.current)
              /\ gol.next = pre.current

\* C2 witness: a frame whose step changed cells in the first column and
\* elsewhere, rendered wholly from the new generation.
C2_Witness ==
    /\ gol.generation = pre.generation + 1
    /\ \E p, q \in DOMAIN gol.current :
          /\ p[1] = 0 /\ q[1] > 0
          /\ gol.current[p] # pre.current[p]
          /\ gol.current[q] # pre.current[q]
    /\ DrawnCells = AliveCells(gol.current)
    /\ DrawnCells # AliveCells(pre.current)

\* C3: at 10 steps per second under a 60-per-second tick counter advanced by 1
\* per tick, one step() has happened every 6 ticks: 1 after 6, 10 after 60.
C3_TenStepsPerSixtyTicks ==
    gol.updateRateFPS = 10 =>
        /\ gol.generation = frameCount \div 6
        /\ frameCount = 6 => gol.generation = 1
        /\ frameCount = 60 => gol.generation = 10

\* C3 witness: tick 60 of a 10-per-second automaton, after its 10th step.
C3_Witness ==
    /\ gol.updateRateFPS = 10
    /\ frameCount = 60
    /\ gol.generation = 10
    /\ gol.lastUpdateFrame = 60

\* C6: after every frame's step-plus-correction the core cells are alive in the
\* current buffer, whatever the step computed for them, and the render of that
\* frame, which follows the correction, shows them.
C6_CoreAlive ==
    frameCount > 0 =>
        \A p \in CoreCells(gol.cols, gol.rows) :
            /\ gol.current[p] = ALIVE
            /\ Rect(p[1], p[2], PlayerX, PlayerY, CellSize) \in drawn

\* C6 witness: a step that killed a core cell, alive again after the correction,
\* late in a long run of steps.
C6_Witness ==
    /\ gol.generation = pre.generation + 1
    /\ gol.generation >= 10
    /\ \E p \in CoreCells(gol.cols, gol.rows) :
          /\ pre.current[p] = ALIVE
          /\ afterStep[p] = DEAD
          /\ gol.current[p] = ALIVE

\* ------------------------------------------------------ pattern renderer
\* A renderer that ignores the asked phase.
stepTimesIgnored(e, n) == e

RECURSIVE stepTimes(_, _)
stepTimes(e, n) == IF n <= 0 THEN e ELSE stepTimes(Step(e), n - 1)

\* createPatternRenderer({mode, pattern, phase, globalCellSize, loopUpdateRate}):
\* a grid of the pattern's box seeded with the pattern and brought to the asked
\* phase (<<>>: none asked, phase 0); dimensions are the box in pixels.
createPatternRenderer(mode, pattern, phaseArg, globalCellSize, loopUpdateRate) ==
    LET pat == Patterns[pattern]
        seeded == setPattern(GoLEngine(pat.width, pat.height, loopUpdateRate), pat, 0, 0)
        atPhase == stepTimes(seeded, IF phaseArg = <<>> THEN 0 ELSE phaseArg[1])
    IN  [mode |-> mode,
         pattern |-> pattern,
         gol |-> [atPhase EXCEPT !.generation = 0],
         dimensions |-> [width |-> pat.width * globalCellSize,
                         height |-> pat.height * globalCellSize]]

\* ------------------------------------------------- the Dino Runner game
BASE_WIDTH == 1200

CONFIG ==
    [gravity |-> 55000,                         \* 5.5 pixel, in 1/Scale pixel
     groundY |-> 1152,
     horizonY |-> 1137,
     jumpForce |-> -700000,                     \* -70 pixel, in 1/Scale pixel
     obstacle |-> [spawnInterval |-> 100, minInterval |-> 50, intervalVariability |-> 40,
                   speed |-> -15,
                   speedIncrease |-> 15],       \* 0.0015, in 1/Scale
     parallax |-> [cloudDensity |-> 4,
                   scrollSpeed |-> -15000,      \* -1.5 pixel, in 1/Scale pixel
                   spawnInterval |-> 120,
                   cellSize |-> 30,
                   patterns |-> <<"BLOCK", "BEEHIVE", "LOAF", "BOAT", "TUB">>]]

ObstacleConfig(n, t) == [name |-> n, type |-> t, pattern |-> n]

\* Mutant: the three oscillators are configured as oscillators.
obstaclePatternsAnimated ==
    << ObstacleConfig("BLOCK", "still-life"), ObstacleConfig("BEEHIVE", "still-life"),
       ObstacleConfig("LOAF", "still-life"), ObstacleConfig("BOAT", "still-life"),
       ObstacleConfig("TUB", "still-life"), ObstacleConfig("BLINKER", "oscillator"),
       ObstacleConfig("TOAD", "oscillator"), ObstacleConfig("BEACON", "oscillator") >>

\* CONFIG.obstaclePatterns: every entry, the oscillators included, is a 'still-life'.
obstaclePatterns ==
    << ObstacleConfig("BLOCK", "still-life"), ObstacleConfig("BEEHIVE", "still-life"),
       ObstacleConfig("LOAF", "still-life"), ObstacleConfig("BOAT", "still-life"),
       ObstacleConfig("TUB", "still-life"), ObstacleConfig("BLINKER", "still-life"),
       ObstacleConfig("TOAD", "still-life"), ObstacleConfig("BEACON", "still-life") >>

\* spawnCloud(): a still life in a STATIC renderer, off-screen right.
spawnCloud(patternName, y) ==
    LET renderer == createPatternRenderer("STATIC", patternName, <<0>>,
                                          CONFIG.parallax.cellSize, 10)
    IN  [x |-> BASE_WIDTH * Scale,
         y |-> y * Scale,
         vx |-> CONFIG.parallax.scrollSpeed,
         pattern |-> patternName,
         gol |-> renderer.gol,
         width |-> renderer.dimensions.width,
         height |-> renderer.dimensions.height,
         cellSize |-> CONFIG.parallax.cellSize,
         dead |-> FALSE,
         mode |-> renderer.mode,          \* history: the renderer's mode
         seeded |-> renderer.gol.current, \* history: the grid as created
         throttled |-> 0,                 \* history: updateThrottled calls on gol
         age |-> 0]                       \* history: frames lived

hitboxScale == 7000     \* 0.7, in 1/Scale

\* spawnObstacle(): STATIC renderer for a 'still-life' config, LOOP otherwise;
\* positions and the 70% hitbox in 1/Scale pixel.
spawnObstacle(patternConfig) ==
    LET renderer == createPatternRenderer(
                        IF patternConfig.type = "still-life" THEN "STATIC" ELSE "LOOP",
                        patternConfig.pattern,
                        IF "phase" \in DOMAIN patternConfig
                        THEN <<patternConfig.phase>> ELSE <<>>,
                        30, 10)
        dims == renderer.dimensions
    IN  [x |-> BASE_WIDTH * Scale,
         y |-> CONFIG.horizonY * Scale - dims.height * (Scale \div 2),
         width |-> dims.width,
         height |-> dims.height,
         hitboxWidth |-> dims.width * hitboxScale,
         hitboxHeight |-> dims.height * hitboxScale,
         hitboxOffsetX |-> (dims.width * Scale - dims.width * hitboxScale) \div 2,
         hitboxOffsetY |-> (dims.height * Scale - dims.height * hitboxScale) \div 2,
         vx |-> CONFIG.obstacle.speed,
         gol |-> renderer.gol,
         cellSize |-> 30,
         type |-> patternConfig.type,
         name |-> patternConfig.name,
         dead |-> FALSE,
         mode |-> renderer.mode,          \* history: the renderer's mode
         seeded |-> renderer.gol.current, \* history: the grid as created
         throttled |-> 0,                 \* history: updateThrottled calls on gol
         age |-> 0]                       \* history: frames lived

Max(a, b) == IF a >= b THEN a ELSE b

Alive(entity) == ~entity.dead

\* The body of the cloud loop of updateClouds.
moveCloud(cloud) ==
    LET x == cloud.x + cloud.vx
    IN  [cloud EXCEPT !.x = x,
                      !.dead = x < -(cloud.width * Scale),
                      !.age = @ + 1]

\* The body of the obstacle loop of updateGame: move, animate an 'oscillator',
\* mark dead once scrolled past -150.
moveObstacle(obs, gameSpeed, frame) ==
    LET x == obs.x + obs.vx * gameSpeed
        animated == obs.type = "oscillator"
    IN  [obs EXCEPT !.x = x,
                    !.gol = IF animated THEN updateThrottled(@, frame) ELSE @,
                    !.throttled = IF animated THEN @ + 1 ELSE @,
                    !.dead = x < -150 * Scale,
                    !.age = @ + 1]

\* renderClouds and the obstacle loop of renderGame: one rectangle for each
\* alive cell of each entity's current buffer.
renderEntity(entity, y) ==
    {[px |-> entity.x + p[1] * entity.cellSize * Scale,
      py |-> y + p[2] * entity.cellSize * Scale,
      size |-> entity.cellSize] :
        p \in {q \in Cells(entity.gol.cols, entity.gol.rows) : entity.gol.current[q] = ALIVE}}

renderGame(cs, os) ==
    UNION ({renderEntity(cs[i], cs[i].y) : i \in 1 .. Len(cs)}
           \cup {renderEntity(os[i], os[i].y) : i \in 1 .. Len(os)})

\* setupPlayer(): a 200 x 200 sprite at x = 200; it owns no automaton.
player == [x |-> 200, width |-> 200, height |-> 200]

\* The horizontal half of Collision.rectRect between the player and the
\* obstacle's hitbox.  The vertical half depends on the jump in progress, which
\* gameDraw leaves open.
overlapsPlayerColumn(obs) ==
    /\ player.x * Scale < obs.x + obs.hitboxOffsetX + obs.hitboxWidth
    /\ (player.x + player.width) * Scale > obs.x + obs.hitboxOffsetX

\* The random draws of the model: the obstacle spawn offset that spawns soonest,
\* one cloud height, the two ends of the cloud placement jitter, and the four
\* initial cloud patterns taken in list order from any starting entry.
SpawnOffsets == {-CONFIG.obstacle.intervalVariability}
CloudHeights == {100}
CloudJitters == {-90, 0}

NoGol == GoLEngine(0, 0, 10)

\* initGame(): counters reset, no obstacle, the screen pre-populated with clouds.
\* The player is a sprite and owns no automaton.
InitGame ==
    /\ phase = "PLAYING"
    /\ frameCount = 0
    /\ state = [score |-> 0, spawnTimer |-> 0, cloudSpawnTimer |-> 0, gameSpeed |-> Scale]
    /\ obstacles = <<>>
    /\ particles = <<>>
    /\ playerMotion = NoMotion
    /\ maskedRenderer = NoRenderer
    /\ GAMEOVER_CONFIG = NoConfig
    /\ NoCache
    /\ \E k \in 1 .. Len(CONFIG.parallax.patterns), j \in CloudJitters, y \in CloudHeights :
          clouds = [i \in 1 .. CONFIG.parallax.cloudDensity |->
                      [spawnCloud(CONFIG.parallax.patterns[
                                      ((k + i) % Len(CONFIG.parallax.patterns)) + 1], y)
                       EXCEPT !.x = ((i - 1) * (BASE_WIDTH \div CONFIG.parallax.cloudDensity)
                                     + j) * Scale]]
    /\ gol = NoGol
    /\ pre = gol
    /\ afterStep = gol.current
    /\ seed = [name |-> "none", x |-> 0, y |-> 0, grid |-> gol.current]
    /\ drawn = {}

\* draw() of the game.  While PLAYING: updateClouds, the obstacle spawn timer,
\* the obstacle loop, checkCollisions, the difficulty ramp and the score.  While
\* DYING the world is frozen until the explosion has played out.  Then
\* renderGame.  The ground lines and the particles hold none of this state; the
\* player's jump decides whether an obstacle in the player's column is hit, and
\* the explosion's length decides when DYING ends: both outcomes are allowed.
gameDraw ==
    /\ frameCount < MaxGameFrame
    /\ frameCount' = frameCount + 1
    /\ IF phase = "PLAYING"
       THEN \E offset \in SpawnOffsets, y \in CloudHeights,
               cloudPattern \in 1 .. Len(CONFIG.parallax.patterns),
               config \in 1 .. Len(obstaclePatterns) :
            LET \* updateClouds
                moved == SelectSeq([i \in 1 .. Len(clouds) |-> moveCloud(clouds[i])], Alive)
                cloudTimer == state.cloudSpawnTimer + 1
                cloudDue == cloudTimer >= CONFIG.parallax.spawnInterval
                \* obstacle spawning
                timer == state.spawnTimer + 1
                baseInterval == Max(CONFIG.obstacle.minInterval,
                                    CONFIG.obstacle.spawnInterval - (state.score \div 100))
                currentInterval == Max(CONFIG.obstacle.minInterval, baseInterval + offset)
                due == timer >= currentInterval
                spawned == IF due THEN Append(obstacles, spawnObstacle(obstaclePatterns[config]))
                           ELSE obstacles
                \* obstacle loop
                updated == [i \in 1 .. Len(spawned) |->
                               moveObstacle(spawned[i], state.gameSpeed, frameCount')]
                passed == Len(SelectSeq(updated, LAMBDA o : o.dead))
                score == state.score + 10 * passed
                alive == SelectSeq(updated, Alive)
                inColumn == \E i \in 1 .. Len(alive) : overlapsPlayerColumn(alive[i])
            IN  /\ (~cloudDue => cloudPattern = 1)
                /\ (~due => config = 1)
                /\ clouds' = IF cloudDue
                             THEN Append(moved,
                                         spawnCloud(CONFIG.parallax.patterns[cloudPattern], y))
                             ELSE moved
                /\ obstacles' = alive
                /\ phase' \in IF inColumn THEN {"PLAYING", "DYING"} ELSE {"PLAYING"}
                /\ state' = [score |-> IF frameCount' % 6 = 0 THEN score + 1 ELSE score,
                             spawnTimer |-> IF due THEN 0 ELSE timer,
                             cloudSpawnTimer |-> IF cloudDue THEN 0 ELSE cloudTimer,
                             gameSpeed |-> state.gameSpeed + CONFIG.obstacle.speedIncrease]
       ELSE /\ UNCHANGED <<state, obstacles, clouds>>
            /\ phase' \in IF phase = "DYING" THEN {"DYING", "GAMEOVER"} ELSE {phase}
    /\ drawn' = renderGame(clouds', obstacles')
    /\ UNCHANGED <<gol, pre, afterStep, seed, particles, playerMotion, maskedRenderer,
                   GAMEOVER_CONFIG, cacheVars>>

NextGame == gameDraw

SpecGame == InitGame /\ [][NextGame]_vars

PatternOf(e) == IF "pattern" \in DOMAIN e THEN e.pattern ELSE e.name

Entities == {clouds[i] : i \in 1 .. Len(clouds)} \cup {obstacles[i] : i \in 1 .. Len(obstacles)}

\* C5: every obstacle and every cloud is created with a STATIC renderer (every
\* obstacle config is a 'still-life'), updateThrottled is never called on its
\* grid, and after any number of ticks the grid is cell for cell the one it was
\* seeded with.
C5_StaticNeverSteps ==
    /\ \A i \in 1 .. Len(obstacles) : obstacles[i].type = "still-life"
    /\ \A e \in Entities :
          /\ e.mode = "STATIC"
          /\ e.throttled = 0
          /\ e.gol.generation = 0
          /\ e.gol.current = e.seeded
          /\ AliveCells(e.gol.current) = Patterns[PatternOf(e)].cells

\* C5 witness: a cloud that has lived 100 frames, and an obstacle built from an
\* oscillator pattern that has been on screen for thirty frames, three of its
\* would-be steps.
C5_Witness ==
    /\ \E i \in 1 .. Len(clouds) : clouds[i].age >= 100
    /\ \E i \in 1 .. Len(obstacles) :
          /\ obstacles[i].name \in {"BLINKER", "TOAD", "BEACON"}
          /\ obstacles[i].age >= 30

\* ------------------------------------------------------- gradient cache
\* Numbers of the cache model.  Screen coordinates, seeds and noise scales are
\* integers.  A noise sample t in [0, 1) is carried as the integer
\* t * NoiseUnits, which makes colorIndex = t * (controlPoints - 1) a whole
\* number of halves; a colour computed by lerp is carried in halves as well
\* (twice the component), exact for localT in {0, 1/2}.  NaN and undefined are
\* encoded below the ranges of samples and colour components.
NaN == -1000
undefined == -2000
controlPoints == 20
NoiseUnits == 2 * (controlPoints - 1)

Min(a, b) == IF a <= b THEN a ELSE b

\* JavaScript's a % n on integers, n # 0: the sign of the dividend.
jsRem(a, n) ==
    LET m == IF n < 0 THEN -n ELSE n
    IN  IF a >= 0 THEN a % m ELSE -((-a) % m)

\* p5.noise(u, v) after noiseSeed(s): a fixed field per seed, NaN on a NaN input.
noise(s, u, v) ==
    IF u = NaN \/ v = NaN THEN NaN
    ELSE (s * 7 + u * 5 + v * 3 + u * v) % NoiseUnits

\* x * noiseScale
scaled(x, noiseScale) == IF noiseScale = NaN THEN NaN ELSE x * noiseScale

\* palette[0] || [255, 255, 255], in halves
fallbackColor(palette) ==
    IF Len(palette) > 0
    THEN <<2 * palette[1][1], 2 * palette[1][2], 2 * palette[1][3]>>
    ELSE <<510, 510, 510>>

\* p5.lerp(a, b, localT) in halves, localT = lt2 / 2
lerp(a, b, lt2) == 2 * a + (b - a) * lt2

\* Mutant: a NaN sample is interpolated like any other and yields NaN components.
interpolateColorUnguarded(palette, t) ==
    IF t = NaN \/ Len(palette) = 0 THEN <<NaN, NaN, NaN>>
    ELSE LET i1 == (t \div 2) % Len(palette)
             i2 == (i1 + 1) % Len(palette)
         IN  <<lerp(palette[i1 + 1][1], palette[i2 + 1][1], t % 2),
               lerp(palette[i1 + 1][2], palette[i2 + 1][2], t % 2),
               lerp(palette[i1 + 1][3], palette[i2 + 1][3], t % 2)>>

\* An interpolation that overshoots the second stop.
interpolateColorOvershoot(palette, t) ==
    IF t = NaN \/ Len(palette) = 0 THEN fallbackColor(palette)
    ELSE LET i1 == (t \div 2) % Len(palette)
             i2 == (i1 + 1) % Len(palette)
         IN  <<lerp(palette[i1 + 1][1], palette[i2 + 1][1], (t % 2) + 2),
               lerp(palette[i1 + 1][2], palette[i2 + 1][2], (t % 2) + 2),
               lerp(palette[i1 + 1][3], palette[i2 + 1][3], (t % 2) + 2)>>

\* interpolateColor(t): the NaN guard, the two neighbouring palette stops (an
\* empty palette has none: the invalid-palette guard), linear interpolation.
interpolateColor(palette, t) ==
    IF t = NaN THEN fallbackColor(palette)
    ELSE IF Len(palette) = 0 THEN fallbackColor(palette)
    ELSE LET colorIndex2 == (2 * t * (controlPoints - 1)) \div NoiseUnits
             i1 == (colorIndex2 \div 2) % Len(palette)
             i2 == (i1 + 1) % Len(palette)
             localT2 == colorIndex2 % 2
             c1 == palette[i1 + 1]
             c2 == palette[i2 + 1]
         IN  <<lerp(c1[1], c2[1], localT2),
               lerp(c1[2], c2[2], localT2),
               lerp(c1[3], c2[3], localT2)>>

\* A store into the Uint8ClampedArray of the texture: NaN becomes 0, the value
\* (given in halves) is clamped to 0..255 and rounded, ties to even.
toUint8Clamped(h) ==
    IF h = NaN \/ h <= 0 THEN 0
    ELSE IF h >= 510 THEN 255
    ELSE IF h % 2 = 0 THEN h \div 2
    ELSE IF (h \div 2) % 2 = 0 THEN h \div 2 ELSE (h \div 2) + 1

\* The pixel array prebake leaves behind: RGBA, 4 entries per pixel, pixel
\* (x, y) at index (x + y * cacheSize) * 4.  Entry i of the array is element
\* i + 1 of the sequence.
bakedPixels(cacheSize, palette, noiseScale, s) ==
    IF cacheSize <= 0 THEN <<>>
    ELSE [k \in 1 .. 4 * cacheSize * cacheSize |->
            LET index == k - 1
                x == (index \div 4) % cacheSize
                y == (index \div 4) \div cacheSize
                noiseValue == noise(s, scaled(x, noiseScale), scaled(y, noiseScale))
                rgb == interpolateColor(palette, noiseValue)
            IN  IF index % 4 = 3 THEN 255 ELSE toUint8Clamped(rgb[(index % 4) + 1])]

\* Mutant: the texture is baked from whatever seed the global noise state holds.
prebakeUnseeded(c, s, p) ==
    [cache |-> [c EXCEPT !.cacheTexture = "graphics",
                         !.cachePixels = bakedPixels(c.cacheSize, c.palette,
                                                     c.noiseScale, p.seed),
                         !.seed = s],
     perlin |-> [seed |-> p.seed],
     sampled |-> IF c.cacheSize > 0 THEN c.cacheSize * c.cacheSize ELSE 0]

\* prebake(seed) on cache c with the global noise state p: noiseSeed(seed),
\* one noise sample per pixel, the texture and its pixel array replaced; with
\* the number of noise samples taken.
prebake(c, s, p) ==
    [cache |-> [c EXCEPT !.cacheTexture = "graphics",
                         !.cachePixels = bakedPixels(c.cacheSize, c.palette,
                                                     c.noiseScale, s),
                         !.seed = s],
     perlin |-> [seed |-> s],
     sampled |-> IF c.cacheSize > 0 THEN c.cacheSize * c.cacheSize ELSE 0]

\* constructor(p5, cacheSize, palette, noiseScale, noiseSeed): the fields are
\* stored as given and the texture is pre-baked.  No argument is validated.
GradientCache(cacheSize, palette, noiseScale, noiseSeed, p) ==
    prebake([exists |-> TRUE, cacheSize |-> cacheSize, noiseScale |-> noiseScale,
             palette |-> palette, cacheTexture |-> "null", cachePixels |-> <<>>,
             seed |-> 0],
            noiseSeed, p)

\* regenerate(newSeed)
regenerate(c, newSeed, p) == prebake(c, newSeed, p)

\* this.cachePixels[i]: undefined outside the array
pixelAt(pixels, i) == IF i >= 0 /\ i < Len(pixels) THEN pixels[i + 1] ELSE undefined

\* floor((screen * 0.5) % cacheSize), clamped to 0 .. cacheSize - 1; cacheSize # 0
cacheCoord(screen, cacheSize) ==
    LET halves == jsRem(screen, 2 * cacheSize)
        cx == halves \div 2
    IN  Max(0, Min(cacheSize - 1, cx))

\* Mutant: a lookup leaves a mark in the pixel it has read.
getColorMarking(c, screenX, screenY) ==
    IF c.cacheTexture = "null" THEN [threw |-> TRUE, value |-> <<>>, self |-> c]
    ELSE IF c.cacheSize <= 0
    THEN [threw |-> FALSE, value |-> <<undefined, undefined, undefined>>, self |-> c]
    ELSE LET x == cacheCoord(screenX, c.cacheSize)
             y == cacheCoord(screenY, c.cacheSize)
             index == (x + y * c.cacheSize) * 4
         IN  [threw |-> FALSE,
              value |-> <<pixelAt(c.cachePixels, index), pixelAt(c.cachePixels, index + 1),
                          pixelAt(c.cachePixels, index + 2)>>,
              self |-> [c EXCEPT !.cachePixels[index + 4] = 0]]

\* getColor(screenX, screenY): the returned colour and the object as the call
\* leaves it.  A read of null cachePixels (after dispose) throws; with cacheSize 0
\* the index is NaN and the read yields undefined.
getColor(c, screenX, screenY) ==
    IF c.cacheTexture = "null" THEN [threw |-> TRUE, value |-> <<>>, self |-> c]
    ELSE IF c.cacheSize = 0
    THEN [threw |-> FALSE, value |-> <<undefined, undefined, undefined>>, self |-> c]
    ELSE LET x == cacheCoord(screenX, c.cacheSize)
             y == cacheCoord(screenY, c.cacheSize)
             index == (x + y * c.cacheSize) * 4
         IN  [threw |-> FALSE,
              value |-> <<pixelAt(c.cachePixels, index), pixelAt(c.cachePixels, index + 1),
                          pixelAt(c.cachePixels, index + 2)>>,
              self |-> c]

\* Mutant: the time offset scrolls horizontally.
getAnimatedColorSideways(c, screenX, screenY, timeOffset) ==
    getColor(c, screenX + timeOffset, screenY)

\* getAnimatedColor(screenX, screenY, timeOffset)
getAnimatedColor(c, screenX, screenY, timeOffset) ==
    getColor(c, screenX, screenY + timeOffset)

\* dispose(): texture and pixel array released, once.
dispose(c) ==
    IF c.cacheTexture # "null"
    THEN [c EXCEPT !.cacheTexture = "null", !.cachePixels = <<>>]
    ELSE c

\* p5.noise(u, v, w): the three-dimensional field of the same seed.
noise3(s, u, v, w) ==
    IF u = NaN \/ v = NaN \/ w = NaN THEN NaN
    ELSE (s * 7 + u * 5 + v * 3 + u * v + w * 11) % NoiseUnits

\* SimpleGradientRenderer._getGradientColorRuntime(screenX, screenY): the
\* fallback path without a cache: one noise sample under the global seed, the
\* NaN guard, the invalid-palette guard, interpolation.  The colour is in halves.
getGradientColorRuntime(palette, p, screenX, screenY, animationOffset) ==
    LET noiseValue == noise3(p.seed, screenX, screenY,
                             IF animationOffset = NaN THEN NaN ELSE animationOffset * 2)
    IN  IF noiseValue = NaN THEN fallbackColor(palette)
        ELSE IF Len(palette) = 0 THEN fallbackColor(palette)
        ELSE LET colorIndex2 == (2 * noiseValue * (controlPoints - 1)) \div NoiseUnits
                 i1 == (colorIndex2 \div 2) % Len(palette)
                 i2 == (i1 + 1) % Len(palette)
                 localT2 == colorIndex2 % 2
                 c1 == palette[i1 + 1]
                 c2 == palette[i2 + 1]
             IN  <<lerp(c1[1], c2[1], localT2),
                   lerp(c1[2], c2[2], localT2),
                   lerp(c1[3], c2[3], localT2)>>

\* -------------------------------------------- the cache and its callers
\* The arguments and coordinates the callers draw from.
CacheSizes == -1 .. MaxCacheSize
Palettes == { <<>>,
              << <<10, 20, 30>>, <<255, 40, 61>>, <<66, 133, 244>> >> }
NoiseScales == {1, NaN}
Seeds == {1, 2}
ScreenXs == -2 .. MaxCoord
ScreenYs == {-1, 0, 2}
TimeOffsets == {1, 2}

Call(op, args, threw, value, sampled) ==
    [op |-> op, args |-> args, threw |-> threw, value |-> value, sampled |-> sampled]

\* What the construction of a cache can do.  createGraphics and loadPixels
\* belong to the host library: on a non-positive size they either throw, and
\* no instance comes to exist, or hand back an empty pixel array.
Constructions(cacheSize, palette, noiseScale, s, p) ==
    LET built == GradientCache(cacheSize, palette, noiseScale, s, p)
    IN  {[threw |-> FALSE, cache |-> built.cache, perlin |-> built.perlin,
          sampled |-> built.sampled]}
        \cup (IF cacheSize <= 0
              THEN {[threw |-> TRUE, cache |-> NoInstance, perlin |-> p, sampled |-> 0]}
              ELSE {})

\* No cache yet; the global noise state is whatever the page left.
InitCache ==
    /\ cache = NoInstance
    /\ twin = NoInstance
    /\ perlin \in [seed : Seeds]
    /\ ret = NoCall
    /\ phase = "PLAYING"
    /\ frameCount = 0
    /\ gol = NoGol
    /\ pre = gol
    /\ afterStep = gol.current
    /\ seed = [name |-> "none", x |-> 0, y |-> 0, grid |-> gol.current]
    /\ drawn = {}
    /\ NoGame

idleForCache == <<phase, gol, frameCount, pre, afterStep, drawn, seed, gameVars>>

\* new GradientCache(p5, cacheSize, palette, noiseScale, noiseSeed)
Construct ==
    /\ ~cache.exists
    /\ \E cacheSize \in CacheSizes, palette \in Palettes,
          noiseScale \in NoiseScales, s \in Seeds :
         \E outcome \in Constructions(cacheSize, palette, noiseScale, s, perlin) :
            /\ cache' = outcome.cache
            /\ perlin' = outcome.perlin
            /\ ret' = Call("new", <<cacheSize, s>>, outcome.threw, <<>>, outcome.sampled)
    /\ UNCHANGED <<twin, idleForCache>>

\* A second cache from the arguments the first was built with.
ConstructTwin ==
    /\ cache.exists /\ ~twin.exists
    /\ \E outcome \in Constructions(cache.cacheSize, cache.palette, cache.noiseScale,
                                    cache.seed, perlin) :
         /\ ~outcome.threw
         /\ twin' = outcome.cache
         /\ perlin' = outcome.perlin
         /\ ret' = Call("twin", <<cache.cacheSize, cache.seed>>, FALSE, <<>>,
                        outcome.sampled)
    /\ UNCHANGED <<cache, idleForCache>>

\* Some other code of the page reseeds the global noise.
noiseSeed ==
    /\ \E s \in Seeds : perlin' = [perlin EXCEPT !.seed = s]
    /\ perlin' # perlin
    /\ ret' = Call("noiseSeed", <<perlin'.seed>>, FALSE, <<>>, 0)
    /\ UNCHANGED <<cache, twin, idleForCache>>

\* cache.getColor(screenX, screenY), from any entity's render
GetColor ==
    /\ cache.exists
    /\ \E screenX \in ScreenXs, screenY \in ScreenYs :
         LET r == getColor(cache, screenX, screenY)
         IN  /\ cache' = r.self
             /\ ret' = Call("getColor", <<screenX, screenY>>, r.threw, r.value, 0)
    /\ UNCHANGED <<twin, perlin, idleForCache>>

\* cache.getAnimatedColor(screenX, screenY, timeOffset)
GetAnimatedColor ==
    /\ cache.exists
    /\ \E screenX \in ScreenXs, screenY \in ScreenYs, timeOffset \in TimeOffsets :
         LET r == getAnimatedColor(cache, screenX, screenY, timeOffset)
         IN  /\ cache' = r.self
             /\ ret' = Call("getAnimatedColor", <<screenX, screenY, timeOffset>>,
                            r.threw, r.value, 0)
    /\ UNCHANGED <<twin, perlin, idleForCache>>

\* cache.regenerate(newSeed)
Regenerate ==
    /\ cache.exists
    /\ \E newSeed \in Seeds :
         LET r == regenerate(cache, newSeed, perlin)
         IN  /\ cache' = r.cache
             /\ perlin' = r.perlin
             /\ ret' = Call("regenerate", <<newSeed>>, FALSE, <<>>, r.sampled)
    /\ UNCHANGED <<twin, idleForCache>>

\* cache.dispose()
Dispose ==
    /\ cache.exists
    /\ cache' = dispose(cache)
    /\ ret' = Call("dispose", <<>>, FALSE, <<>>, 0)
    /\ UNCHANGED <<twin, perlin, idleForCache>>

\* A renderer without cache asks the runtime path for a colour; its
\* animationOffset is 0 for ever (updateAnimation no longer advances it).  The
\* position may be not-a-number.
RuntimeColor ==
    /\ \E palette \in Palettes, screenX \in {NaN, -2, MaxCoord}, screenY \in ScreenYs :
         ret' = Call("runtime", <<screenX, screenY, palette>>, FALSE,
                     getGradientColorRuntime(palette, perlin, screenX, screenY, 0), 1)
    /\ UNCHANGED <<cache, twin, perlin, idleForCache>>

NextCache ==
    \/ RuntimeColor
    \/ Construct
    \/ ConstructTwin
    \/ noiseSeed
    \/ GetColor
    \/ GetAnimatedColor
    \/ Regenerate
    \/ Dispose

SpecCache == InitCache /\ [][NextCache]_vars

\* The texture shows more than one colour along its first row.
TwoColours ==
    /\ cache.exists /\ cache.cacheTexture # "null" /\ cache.cacheSize >= 2
    /\ getColor(cache, 0, 0).value # getColor(cache, 2, 0).value

\* C11: lookup tiles with period cacheSize: the colour of the last getColor at
\* (x, y) is also the colour at (x + cacheSize * k, y), for every integer k,
\* positive or negative.
C11_TilesWithPeriodSize ==
    (ret.op = "getColor" /\ ~ret.threw /\ cache.cacheSize > 0) =>
        \A k \in -2 .. 2 :
            getColor(cache, ret.args[1] + cache.cacheSize * k, ret.args[2]).value = ret.value

\* C12: lookup is deterministic: a second cache built with the size, palette,
\* noise scale and seed of the first returns the same colour at every
\* coordinate, whatever happened to the global noise state in between; and the
\* last getColor, repeated, returns the same colour again.
C12_Deterministic ==
    /\ (cache.exists /\ twin.exists /\ cache.seed = twin.seed
        /\ cache.cacheTexture # "null") =>
           \A x \in ScreenXs, y \in ScreenYs :
              getColor(cache, x, y).value = getColor(twin, x, y).value
    /\ ret.op = "getColor" =>
          /\ getColor(cache, ret.args[1], ret.args[2]).value = ret.value
          /\ getColor(cache, ret.args[1], ret.args[2]).threw = ret.threw

\* C12 witness: the twin of a two-coloured cache has just been built, after the
\* first cache was built with a seed other than the one the page had left.
C12_Witness ==
    /\ ret.op = "twin"
    /\ TwoColours
    /\ cache.seed = twin.seed
    /\ cache.cachePixels # bakedPixels(cache.cacheSize, cache.palette, cache.noiseScale,
                                       3 - cache.seed)

\* C13: getAnimatedColor(x, y, timeOffset) returns exactly what getColor(x, y +
\* timeOffset) returns, and takes no noise sample.
C13_AnimatedIsShiftedLookup ==
    ret.op = "getAnimatedColor" =>
        /\ ret.value = getColor(cache, ret.args[1], ret.args[2] + ret.args[3]).value
        /\ ret.threw = getColor(cache, ret.args[1], ret.args[2] + ret.args[3]).threw
        /\ ret.sampled = 0

\* C13 witness: an animated lookup whose offset moved it to a pixel of another
\* colour than the one under (x, y), and of another colour than the one an
\* offset along x would have found.
C13_Witness ==
    /\ ret.op = "getAnimatedColor" /\ ~ret.threw
    /\ ret.value # getColor(cache, ret.args[1], ret.args[2]).value
    /\ ret.value # getColor(cache, ret.args[1] + ret.args[3], ret.args[2]).value

\* C14: reads never change a stored pixel: the pixel array of a cache changes
\* only in its construction, in regenerate and in dispose.
C14_ReadsLeavePixels ==
    [][/\ cache'.cachePixels # cache.cachePixels =>
             ret'.op \in {"new", "regenerate", "dispose"}
       /\ twin'.cachePixels # twin.cachePixels => ret'.op = "twin"]_vars

\* C14 witness: a lookup on a live two-coloured texture right after another
\* lookup result, the pixels still the ones baked from the cache's seed.
C14_Witness ==
    /\ ret.op = "getAnimatedColor" /\ ~ret.threw
    /\ TwoColours
    /\ cache.cachePixels = bakedPixels(cache.cacheSize, cache.palette, cache.noiseScale,
                                       cache.seed)

\* C15: a cache size <= 0 fails at construction: no instance with a
\* non-positive size exists, and every construction with such a size throws.
C15_NonPositiveSizeRejected ==
    /\ cache.exists => cache.cacheSize > 0
    /\ (ret.op = "new" /\ ret.args[1] <= 0) => ret.threw

\* The colour components a texture can hold, and those the runtime path can
\* return (in halves).
IsPixelColour(c) == Len(c) = 3 /\ \A i \in 1 .. 3 : c[i] \in 0 .. 255

IsColourInHalves(c) == Len(c) = 3 /\ \A i \in 1 .. 3 : c[i] \in 0 .. 510

\* C17: a not-a-number noise sample never reaches a colour: interpolateColor
\* answers it with the first palette colour (white for an empty palette), so
\* every pixel prebake writes is a defined colour, the first palette colour
\* where the sample was not a number, and every colour of the runtime path is
\* defined as well, without a throw.
C17_NaNFallsBack ==
    /\ \A palette \in Palettes : interpolateColor(palette, NaN) = fallbackColor(palette)
    /\ (cache.exists /\ cache.cacheTexture # "null") =>
          \A i \in 0 .. (Len(cache.cachePixels) \div 4) - 1 :
             LET rgb == <<cache.cachePixels[4 * i + 1], cache.cachePixels[4 * i + 2],
                          cache.cachePixels[4 * i + 3]>>
                 first == fallbackColor(cache.palette)
             IN  /\ IsPixelColour(rgb)
                 /\ cache.noiseScale = NaN =>
                       rgb = <<first[1] \div 2, first[2] \div 2, first[3] \div 2>>
    /\ ret.op = "runtime" =>
          /\ ~ret.threw
          /\ IsColourInHalves(ret.value)
          /\ ret.args[1] = NaN => ret.value = fallbackColor(ret.args[3])

\* C17 witness: a texture baked from not-a-number samples over a palette whose
\* first colour is not black, and a runtime colour asked at a not-a-number
\* position.
C17_Witness ==
    /\ cache.exists /\ cache.cacheTexture # "null" /\ cache.cacheSize >= 2
    /\ cache.noiseScale = NaN
    /\ Len(cache.palette) > 0
    /\ ret.op = "runtime" /\ ret.args[1] = NaN /\ Len(ret.args[3]) > 0

\* ------------------------------------------------ the grid and its contract
\* create(cols, rows): a non-positive dimension fails with InvalidDimensions
\* and no grid comes to exist; otherwise a cols x rows grid, all cells dead.
createUnchecked(c, r) ==
    [threw |-> FALSE, error |-> "none", grid |-> GoLEngine(c, r, 10)]

create(c, r) ==
    IF c <= 0 \/ r <= 0
    THEN [threw |-> TRUE, error |-> "InvalidDimensions", grid |-> NoGol]
    ELSE [threw |-> FALSE, error |-> "none", grid |-> GoLEngine(c, r, 10)]

InRange(e, x, y) == x >= 0 /\ x < e.cols /\ y >= 0 /\ y < e.rows

\* A setAlive that wraps an out-of-range coordinate onto the grid.
setAliveWrapping(e, x, y, value) ==
    [e EXCEPT !.current[<<x % e.cols, y % e.rows>>] = value]

\* setAlive(x, y, value): one cell of the current buffer; out of range, nothing.
setAlive(e, x, y, value) ==
    IF InRange(e, x, y)
    THEN [e EXCEPT !.current[<<x, y>>] = value]
    ELSE e

seedPattern(e, pattern, offsetX, offsetY) == setPattern(e, pattern, offsetX, offsetY)

GridDims == -1 .. MaxGridDim

NoDims == [cols |-> 0, rows |-> 0]

\* A still life, an oscillator and a moving pattern; each is wider or taller
\* than some grid, so that seeding clips at every edge.
SeedNames == {"BLOCK", "BLINKER", "GLIDER"}

InitGrid ==
    /\ gol = NoGol
    /\ pre = NoGol
    /\ seed = NoDims
    /\ afterStep = NoGol.current
    /\ phase = "PLAYING"
    /\ frameCount = 0
    /\ drawn = {}
    /\ NoGame
    /\ NoCache

idleForGrid == <<phase, frameCount, afterStep, drawn, gameVars, cache, twin, perlin>>

\* The grid's lifetime starts at a successful create; seed remembers the
\* dimensions it was created with.
Create ==
    /\ gol = NoGol
    /\ \E c \in GridDims, r \in GridDims :
         /\ c * r <= MaxGridCells
         /\ LET made == create(c, r) IN
              /\ gol' = made.grid
              /\ seed' = IF made.threw THEN seed ELSE [cols |-> c, rows |-> r]
              /\ ret' = Call("create", <<c, r>>, made.threw, made.error, 0)
    /\ pre' = gol
    /\ UNCHANGED idleForGrid

SetAlive ==
    /\ gol # NoGol
    /\ \E x \in -1 .. gol.cols, y \in -1 .. gol.rows, value \in {DEAD, ALIVE} :
         /\ gol' = setAlive(gol, x, y, value)
         /\ ret' = Call("setAlive", <<x, y, value>>, FALSE, "none", 0)
    /\ pre' = gol
    /\ UNCHANGED <<seed, idleForGrid>>

SeedPattern ==
    /\ gol # NoGol
    /\ \E n \in SeedNames, x \in -1 .. gol.cols - 1, y \in -1 .. gol.rows - 1 :
         /\ gol' = seedPattern(gol, Patterns[n], x, y)
         /\ ret' = Call("seedPattern", <<n, x, y>>, FALSE, "none", 0)
    /\ pre' = gol
    /\ UNCHANGED <<seed, idleForGrid>>

StepGrid ==
    /\ gol # NoGol
    /\ gol.generation < MaxGridGen
    /\ gol' = Step(gol)
    /\ ret' = Call("step", <<>>, FALSE, "none", 0)
    /\ pre' = gol
    /\ UNCHANGED <<seed, idleForGrid>>

NextGrid == Create \/ SetAlive \/ SeedPattern \/ StepGrid

SpecGrid == InitGrid /\ [][NextGrid]_vars

\* C16: create(cols, rows) fails with InvalidDimensions exactly when cols <= 0
\* or rows <= 0 and then no grid exists; otherwise the grid has exactly
\* cols x rows cells, all dead. The dimensions and the cell domain of both
\* buffers stay those of the creation under every setAlive, seedPattern, step.
C16_CreateAndFixedDimensions ==
    /\ ret.op = "create" =>
          LET c == ret.args[1]
              r == ret.args[2] IN
          /\ ret.threw <=> (c <= 0 \/ r <= 0)
          /\ ret.threw => ret.value = "InvalidDimensions" /\ gol = NoGol
          /\ ~ret.threw =>
                /\ gol.cols = c /\ gol.rows = r
                /\ DOMAIN gol.current = Cells(c, r)
                /\ Cardinality(DOMAIN gol.current) = c * r
                /\ AliveCells(gol.current) = {}
    /\ gol # NoGol =>
          /\ gol.cols > 0 /\ gol.rows > 0
          /\ gol.cols = seed.cols /\ gol.rows = seed.rows
          /\ DOMAIN gol.current = Cells(seed.cols, seed.rows)
          /\ DOMAIN gol.next = Cells(seed.cols, seed.rows)

\* A grid that has been seeded, edited and stepped after its creation.
C16_Witness ==
    /\ gol # NoGol
    /\ gol.generation > 0
    /\ ret.op = "seedPattern"
    /\ pre.current # gol.current
    /\ seed.cols # seed.rows

\* C18: seedPattern yields the old grid OR the pattern's cells translated by
\* the offset and clipped to the grid: nothing dies, a translated cell inside
\* the grid lives, a translated cell outside is dropped without error and
\* without wrapping, no other cell changes.
C18_SeedIsClippedUnion ==
    ret.op = "seedPattern" =>
        LET shifted == Translate(Patterns[ret.args[1]].cells, ret.args[2], ret.args[3]) IN
        /\ ~ret.threw
        /\ AliveCells(gol.current) =
              AliveCells(pre.current) \cup (shifted \cap Cells(pre.cols, pre.rows))
        /\ DOMAIN gol.current = DOMAIN pre.current
        /\ gol.next = pre.next
        /\ gol.generation = pre.generation

\* A seeding onto a non-empty grid that keeps an old cell, adds a new one,
\* and drops a translated cell whose wrapped image stays dead.
C18_Witness ==
    /\ ret.op = "seedPattern"
    /\ LET shifted == Translate(Patterns[ret.args[1]].cells, ret.args[2], ret.args[3]) IN
         /\ \E p \in AliveCells(pre.current) : p \notin shifted
         /\ \E p \in shifted : p \in DOMAIN pre.current /\ pre.current[p] = DEAD
         /\ \E p \in shifted :
               /\ p \notin DOMAIN gol.current
               /\ gol.current[<<p[1] % gol.cols, p[2] % gol.rows>>] = DEAD

\* C19: setAlive outside the grid raises nothing and changes nothing; inside
\* the grid it sets exactly that cell of the current buffer.
C19_SetAliveFrame ==
    ret.op = "setAlive" =>
        LET x == ret.args[1]
            y == ret.args[2] IN
        /\ ~ret.threw
        /\ ~InRange(pre, x, y) => gol = pre
        /\ InRange(pre, x, y) =>
              /\ gol.current[<<x, y>>] = ret.args[3]
              /\ \A p \in DOMAIN pre.current :
                    p # <<x, y>> => gol.current[p] = pre.current[p]
              /\ DOMAIN gol.current = DOMAIN pre.current
              /\ gol.next = pre.next
              /\ gol.cols = pre.cols /\ gol.rows = pre.rows
              /\ gol.generation = pre.generation

\* An out-of-range setAlive(ALIVE) on a grid with live and dead cells, whose
\* wrapped image is a dead cell.
C19_Witness ==
    /\ ret.op = "setAlive"
    /\ ~InRange(pre, ret.args[1], ret.args[2])
    /\ ret.args[3] = ALIVE
    /\ AliveCells(gol.current) # {}
    /\ gol.current[<<ret.args[1] % gol.cols, ret.args[2] % gol.rows>>] = DEAD

\* ------------------------------------------------ the gradient renderer
\* The palette of the renderer: GOOGLE_COLORS, as colour triples.
RendererPalette == CHOOSE palette \in Palettes : Len(palette) > 0

\* new SimpleGradientRenderer(p5, {useCache, cacheSize}); the cache it builds
\* is held in the variable cache.
SimpleGradientRenderer(useCache) ==
    [animationOffset |-> 0, useCache |-> useCache, palette |-> RendererPalette]

\* getGradientColor(screenX, screenY): the cached path is the animated lookup
\* at animationOffset, the fallback is the runtime path.
getGradientColor(r, c, p, screenX, screenY) ==
    IF r.useCache /\ c.exists
    THEN LET looked == getAnimatedColor(c, screenX, screenY, r.animationOffset * 1)
         IN  [threw |-> looked.threw, value |-> looked.value, sampled |-> 0, path |-> "cache"]
    ELSE [threw |-> FALSE,
          value |-> getGradientColorRuntime(r.palette, p, screenX, screenY,
                                            r.animationOffset),
          sampled |-> 1, path |-> "runtime"]

\* A dispose() of the renderer that releases the cache and keeps the reference.
disposeRendererKeepingReference(c) == dispose(c)

\* SimpleGradientRenderer.dispose(): a cache that is held is disposed and the
\* reference set to null (exists FALSE); without one nothing happens.
disposeRenderer(c) ==
    IF c.exists THEN [dispose(c) EXCEPT !.exists = FALSE] ELSE c

\* updateAnimation(): the increment of animationOffset is commented out; what
\* is left only logs once.
updateAnimation(r) == r

\* The cells in the order of the gx / gy loops.
CellOrder(cols, rows) ==
    [k \in 1 .. cols * rows |-> <<(k - 1) \div rows, (k - 1) % rows>>]

\* A rendering that samples the gradient at the cell's corner.
renderMaskedGridAtCorner(r, c, p, engine, x, y, cellSize) ==
    LET alive == SelectSeq(CellOrder(engine.cols, engine.rows),
                           LAMBDA q : engine.current[q] = ALIVE)
    IN  [i \in 1 .. Len(alive) |->
            [fill |-> getGradientColor(r, c, p, x + alive[i][1] * cellSize,
                                       y + alive[i][2] * cellSize).value,
             rect |-> Rect(alive[i][1], alive[i][2], x, y, cellSize)]]

\* renderMaskedGrid(engine, x, y, cellSize, gradientConfig) with its colours:
\* the fill / rect commands in the order they are issued.  cellSize is even, as
\* it is in every caller, so that the centre is a whole pixel.
renderMaskedGridFilled(r, c, p, engine, x, y, cellSize) ==
    LET alive == SelectSeq(CellOrder(engine.cols, engine.rows),
                           LAMBDA q : engine.current[q] = ALIVE)
    IN  [i \in 1 .. Len(alive) |->
            LET px == x + alive[i][1] * cellSize
                py == y + alive[i][2] * cellSize
            IN  [fill |-> getGradientColor(r, c, p, px + cellSize \div 2,
                                           py + cellSize \div 2).value,
                 rect |-> [px |-> px, py |-> py, size |-> cellSize]]]

\* A rendering that fills every cell with the first colour of the entity's
\* gradient preset.
renderMaskedGridPreset(r, c, p, engine, x, y, cellSize, gradientConfig) ==
    LET alive == SelectSeq(CellOrder(engine.cols, engine.rows),
                           LAMBDA q : engine.current[q] = ALIVE)
    IN  [i \in 1 .. Len(alive) |->
            [fill |-> fallbackColor(gradientConfig.palette),
             rect |-> [px |-> x + alive[i][1] * cellSize,
                       py |-> y + alive[i][2] * cellSize, size |-> cellSize]]]

\* renderMaskedGrid with its fifth parameter, which the body never reads.
renderMaskedGridWith(r, c, p, engine, x, y, cellSize, gradientConfig) ==
    renderMaskedGridFilled(r, c, p, engine, x, y, cellSize)

\* The presets the game passes as gradientConfig (obs.gradient), and a cloud's
\* multicolour one.
GradientConfigs ==
    {[name |-> "ENEMY_HOT", palette |-> << <<234, 67, 53>>, <<251, 188, 4>> >>],
     [name |-> "ENEMY_COLD", palette |-> << <<66, 133, 244>>, <<52, 168, 83>> >>],
     [name |-> "multicolor", palette |-> <<>>]}

Grids(cols, rows) == [Cells(cols, rows) -> {DEAD, ALIVE}]

AnchorXs == {-1, 2}
AnchorYs == {0, 1}
CellSizes == {2, 4}

\* setup(): the renderer with or without cache; some entity's grid to draw.
InitRenderer ==
    /\ \E useCache \in BOOLEAN :
         LET built == GradientCache(MaxCacheSize, RendererPalette, 1, 1, [seed |-> 2])
         IN  /\ maskedRenderer = SimpleGradientRenderer(useCache)
             /\ cache = IF useCache THEN built.cache ELSE NoInstance
             /\ perlin = IF useCache THEN built.perlin ELSE [seed |-> 2]
    /\ \E c \in 1 .. MaxGridDim, r \in 1 .. MaxGridDim :
         /\ c * r <= MaxGridCells
         /\ \E grid \in Grids(c, r) : gol = [GoLEngine(c, r, 10) EXCEPT !.current = grid]
    /\ pre = gol
    /\ afterStep = gol.current
    /\ seed = NoDims
    /\ drawn = <<>>
    /\ phase = "PLAYING"
    /\ frameCount = 0
    /\ state = [score |-> 0, spawnTimer |-> 0, cloudSpawnTimer |-> 0, gameSpeed |-> Scale]
    /\ obstacles = <<>>
    /\ clouds = <<>>
    /\ particles = <<>>
    /\ playerMotion = NoMotion
    /\ GAMEOVER_CONFIG = NoConfig
    /\ twin = NoInstance
    /\ ret = NoCall

idleForRenderer ==
    <<phase, frameCount, afterStep, seed, state, obstacles, clouds, particles,
      playerMotion, GAMEOVER_CONFIG, twin>>

\* maskedRenderer.renderMaskedGrid(entity.gol, entity.x, entity.y, entity.cellSize,
\* entity.gradient)
RenderMaskedGrid ==
    /\ \E x \in AnchorXs, y \in AnchorYs, cellSize \in CellSizes,
          gradientConfig \in GradientConfigs :
         /\ drawn' = renderMaskedGridWith(maskedRenderer, cache, perlin, gol, x, y, cellSize,
                                          gradientConfig)
         /\ ret' = Call("renderMaskedGrid", <<x, y, cellSize, gradientConfig>>, FALSE, <<>>, 0)
    /\ pre' = gol
    /\ UNCHANGED <<gol, maskedRenderer, cache, perlin, idleForRenderer>>

\* maskedRenderer.updateAnimation(), once per frame at the end of draw().
UpdateAnimation ==
    /\ maskedRenderer' = updateAnimation(maskedRenderer)
    /\ ret' = Call("updateAnimation", <<>>, FALSE, <<>>, 0)
    /\ UNCHANGED <<gol, pre, drawn, cache, perlin, idleForRenderer>>

\* maskedRenderer.getGradientColor(screenX, screenY); ret.sampled is 1 on the
\* runtime path, 0 on the cached one.
GetGradientColor ==
    /\ \E screenX \in ScreenXs, screenY \in ScreenYs :
         \E r \in {getGradientColor(maskedRenderer, cache, perlin, screenX, screenY)} :
            ret' = Call("getGradientColor", <<screenX, screenY>>, r.threw, r.value, r.sampled)
    /\ UNCHANGED <<gol, pre, drawn, maskedRenderer, cache, perlin, idleForRenderer>>

\* maskedRenderer.dispose()
DisposeRenderer ==
    /\ cache' = disposeRenderer(cache)
    /\ ret' = Call("dispose", <<>>, FALSE, <<>>, 0)
    /\ UNCHANGED <<gol, pre, drawn, maskedRenderer, perlin, idleForRenderer>>

NextRenderer == RenderMaskedGrid \/ UpdateAnimation

SpecRenderer == InitRenderer /\ [][NextRenderer]_vars

\* C25: every updateAnimation advances animationOffset, so the offset of the
\* cached lookup grows from frame to frame.
C25_AnimationAdvances ==
    [][ret'.op = "updateAnimation" =>
          maskedRenderer'.animationOffset > maskedRenderer.animationOffset]_vars

\* C26: renderMaskedGrid emits exactly one rectangle for each alive cell of the
\* current buffer, at (x + gx*cellSize, y + gy*cellSize) with side cellSize,
\* filled with the gradient colour at the cell's centre, nothing for a dead
\* cell, and the grid is left as it was.
C26_OneRectPerAliveCell ==
    ret.op = "renderMaskedGrid" =>
        LET x == ret.args[1]
            y == ret.args[2]
            cellSize == ret.args[3]
            Centre(q) == getGradientColor(maskedRenderer, cache, perlin,
                                          x + q[1] * cellSize + cellSize \div 2,
                                          y + q[2] * cellSize + cellSize \div 2).value
            Emitted(q) == {i \in 1 .. Len(drawn) :
                              /\ drawn[i].rect.px = x + q[1] * cellSize
                              /\ drawn[i].rect.py = y + q[2] * cellSize}
        IN  /\ gol = pre
            /\ Len(drawn) = Cardinality(AliveCells(gol.current))
            /\ \A q \in DOMAIN gol.current :
                  IF gol.current[q] = ALIVE
                  THEN /\ Cardinality(Emitted(q)) = 1
                       /\ \A i \in Emitted(q) :
                             /\ drawn[i].rect.size = cellSize
                             /\ drawn[i].fill = Centre(q)
                  ELSE Emitted(q) = {}

\* A grid with alive and dead cells drawn through the cache, two of its
\* rectangles filled with different colours.
C26_Witness ==
    /\ ret.op = "renderMaskedGrid"
    /\ maskedRenderer.useCache
    /\ AliveCells(gol.current) # {}
    /\ AliveCells(gol.current) # DOMAIN gol.current
    /\ \E i, j \in 1 .. Len(drawn) : drawn[i].fill # drawn[j].fill

\* ------------------------------------------------ a Static controller
\* advance(tick) of the controller: a STATIC one never steps, a LOOP one
\* steps on its throttled cadence.
advance(mode, e, tick) == IF mode = "STATIC" THEN e ELSE updateThrottled(e, tick)

\* The starting phases a caller may ask for; <<>> is no phase given.
PhaseArgs == {<<>>} \cup {<<n>> : n \in 0 .. MaxPhase}

\* A Static controller as constructed; nothing has been rendered yet.  seed
\* remembers what was asked.
InitStatic ==
    /\ \E n \in PatternName, phaseArg \in PhaseArgs :
         LET renderer == createPatternRenderer("STATIC", n, phaseArg, CellSize, 10)
         IN  /\ gol = renderer.gol
             /\ seed = [name |-> n, phase |-> phaseArg, mode |-> renderer.mode]
    /\ pre = gol
    /\ afterStep = gol.current
    /\ drawn = {}
    /\ phase = "PLAYING"
    /\ frameCount = 0
    /\ NoGame
    /\ NoCache

\* One host tick on the Static entity: advance, then render.
StaticTick ==
    /\ frameCount < MaxStaticTick
    /\ frameCount' = frameCount + 1
    /\ pre' = gol
    /\ gol' = advance(seed.mode, gol, frameCount')
    /\ afterStep' = gol'.current
    /\ drawn' = renderMaskedGrid(gol', 0, 0, CellSize)
    /\ UNCHANGED <<phase, seed, gameVars, cacheVars>>

NextStatic == StaticTick

SpecStatic == InitStatic /\ [][NextStatic]_vars

\* The pattern seeded on its own box, before any step.
Reference(n) == setPattern(GoLEngine(Patterns[n].width, Patterns[n].height, 10),
                           Patterns[n], 0, 0)

\* The grid after exactly k generations, k written out.
Generation(e, k) ==
    CASE k = 0 -> e.current
      [] k = 1 -> Step(e).current
      [] k = 2 -> Step(Step(e)).current
      [] k = 3 -> Step(Step(Step(e))).current
      [] OTHER -> Step(Step(Step(Step(e)))).current

\* C27: a Static controller built with starting phase p holds the pattern
\* stepped p times (the pattern itself for phase 0 or no phase), already
\* before the first render, and the same grid on every later tick; what it
\* renders is that grid.
C27_StaticHoldsPhase ==
    LET p == IF seed.phase = <<>> THEN 0 ELSE seed.phase[1]
        held == Generation(Reference(seed.name), p)
    IN  /\ gol.current = held
        /\ frameCount = 0 => drawn = {}
        /\ frameCount > 0 =>
              drawn = {Rect(q[1], q[2], 0, 0, CellSize) : q \in AliveCells(held)}

\* An oscillator frozen at an odd phase, which is not the pattern as seeded,
\* still held after every tick of the run.
C27_Witness ==
    /\ seed.name = "BLINKER"
    /\ seed.phase = <<1>>
    /\ gol.current # Reference(seed.name).current
    /\ frameCount = MaxStaticTick

\* ------------------------------------------------ the palette interpolation
\* Palettes of one to four stops, channels rising and falling between stops.
InterpolationPalettes ==
    { << <<7, 8, 9>> >>,
      << <<0, 255, 30>>, <<255, 0, 30>> >>,
      << <<10, 20, 30>>, <<255, 40, 61>>, <<66, 133, 244>> >>,
      << <<49, 134, 255>>, <<252, 65, 61>>, <<0, 175, 87>>, <<255, 204, 0>> >> }

\* The noise values of [0, 1], in 1/NoiseUnits.
NoiseValues == 0 .. NoiseUnits

\* A cache built on any of the palettes.
InitInterpolation ==
    /\ \E palette \in InterpolationPalettes :
         LET built == GradientCache(1, palette, 1, 1, [seed |-> 1])
         IN  cache = built.cache /\ perlin = built.perlin
    /\ twin = NoInstance
    /\ ret = NoCall
    /\ gol = NoGol
    /\ pre = gol
    /\ afterStep = gol.current
    /\ seed = NoDims
    /\ drawn = {}
    /\ phase = "PLAYING"
    /\ frameCount = 0
    /\ NoGame

\* prebake's call of interpolateColor on one noise value.
InterpolateColor ==
    /\ \E t \in NoiseValues :
         ret' = Call("interpolateColor", <<t>>, FALSE, interpolateColor(cache.palette, t), 0)
    /\ UNCHANGED <<cache, twin, perlin, idleForCache>>

NextInterpolation == InterpolateColor

SpecInterpolation == InitInterpolation /\ [][NextInterpolation]_vars

Between(v, a, b) == (a <= v /\ v <= b) \/ (b <= v /\ v <= a)

\* C28: a noise value in [0, 1] falls on the segment between two adjacent
\* palette entries, the last entry being adjacent to the first; both indices
\* are within the palette; on a control point the colour is the palette entry
\* (t = 0: the first entry), within a segment each channel is the linear
\* interpolation of, and so lies between, the two entries' channels.  Colours
\* are in halves.
C28_PiecewiseLinear ==
    ret.op = "interpolateColor" =>
        LET t == ret.args[1]
            palette == cache.palette
            n == Len(palette)
            whole == (t * (controlPoints - 1)) \div NoiseUnits
            twice == (2 * t * (controlPoints - 1)) \div NoiseUnits - 2 * whole
            first == (whole % n) + 1
            second == (first % n) + 1
        IN  /\ first \in 1 .. n /\ second \in 1 .. n
            /\ second = IF first = n THEN 1 ELSE first + 1
            /\ t = 0 => ret.value = <<2 * palette[1][1], 2 * palette[1][2], 2 * palette[1][3]>>
            /\ \A ch \in 1 .. 3 :
                  /\ Between(ret.value[ch], 2 * palette[first][ch], 2 * palette[second][ch])
                  /\ twice = 0 => ret.value[ch] = 2 * palette[first][ch]
                  /\ twice = 1 => ret.value[ch] = palette[first][ch] + palette[second][ch]

\* A value inside the segment that wraps from the last entry to the first.
C28_Witness ==
    /\ ret.op = "interpolateColor"
    /\ Len(cache.palette) = 4
    /\ ((ret.args[1] * (controlPoints - 1)) \div NoiseUnits) % 4 = 3
    /\ ret.value[1] = cache.palette[4][1] + cache.palette[1][1]
    /\ ret.value[1] # 2 * cache.palette[4][1]

\* ------------------------------------------------ one life of the game
\* updatePlayer() of the game: gravity first, the ground, then a jump from the
\* ground when the screen is touched or SPACE is down.
updatePlayerMotion(pm, jump) ==
    LET vy == pm.vy + CONFIG.gravity
        y == pm.y + vy
        ground == (CONFIG.groundY - 200) * Scale
        landed == y >= ground
        jumps == jump /\ landed
    IN  [y |-> IF landed THEN ground ELSE y,
         vy |-> IF jumps THEN CONFIG.jumpForce ELSE IF landed THEN 0 ELSE vy,
         onGround |-> landed /\ ~jumps]

\* setupPlayer(): the sprite stands on the ground.
setupPlayer == [y |-> (CONFIG.groundY - 200) * Scale, vy |-> 0, onGround |-> TRUE]

\* Collision.rectRect: two axis-aligned rectangles overlap.
rectRect(x1, y1, w1, h1, x2, y2, w2, h2) ==
    /\ x1 < x2 + w2
    /\ x1 + w1 > x2
    /\ y1 < y2 + h2
    /\ y1 + h1 > y2

\* A collision decided on the alive cells of the obstacle's grid.
hitsAliveCell(pm, obs) ==
    \E q \in AliveCells(obs.gol.current) :
        rectRect(player.x * Scale, pm.y, player.width * Scale, player.height * Scale,
                 obs.x + q[1] * obs.cellSize * Scale, obs.y + q[2] * obs.cellSize * Scale,
                 obs.cellSize * Scale, obs.cellSize * Scale)

\* A collision decided on the whole pattern box instead of the hitbox.
hitsVisualBox(pm, obs) ==
    rectRect(player.x * Scale, pm.y, player.width * Scale, player.height * Scale,
             obs.x, obs.y, obs.width * Scale, obs.height * Scale)

\* The test of checkCollisions: the player's rectangle against the obstacle's
\* hitbox (offset || 0, hitbox size || visual size).
hits(pm, obs) ==
    rectRect(player.x * Scale, pm.y, player.width * Scale, player.height * Scale,
             obs.x + obs.hitboxOffsetX,
             obs.y + obs.hitboxOffsetY,
             IF obs.hitboxWidth = 0 THEN obs.width * Scale ELSE obs.hitboxWidth,
             IF obs.hitboxHeight = 0 THEN obs.height * Scale ELSE obs.hitboxHeight)

\* One draw of seedRadialDensity(gol, 0.7, 0.0): every cell that may live does.
seedDensest(e, centerDensity, edgeDensity) ==
    [e EXCEPT !.current =
        [q \in Cells(e.cols, e.rows) |->
            IF NeverAlive(q, e.cols, e.rows, centerDensity, edgeDensity)
            THEN DEAD ELSE ALIVE]]

\* spawnExplosion(x, y): eight particles; the random offsets and velocities are
\* one draw (none).
spawnExplosion(ps, x, y) ==
    ps \o [i \in 1 .. 8 |->
             [x |-> x, y |-> y, vx |-> 0, vy |-> 0,
              alpha |-> 255, width |-> 180, height |-> 180,
              gol |-> seedDensest(GoLEngine(6, 6, 30), 70, 0),
              cellSize |-> 30, dead |-> FALSE,
              lastTick |-> 0,       \* history: the last tick this particle was given
              ordered |-> TRUE]]    \* history: every tick was larger than the one before

\* updateParticles(particles, frameCount): every particle is given the tick;
\* the particles that stay are returned.  How many stay is the helper's
\* decision (grid dead, lifetime over): any number, here the first kept ones.
updateParticles(ps, tick, kept) ==
    [i \in 1 .. Min(kept, Len(ps)) |->
        [ps[i] EXCEPT !.ordered = @ /\ tick > ps[i].lastTick,
                      !.lastTick = tick]]

\* initParallax(): the screen pre-populated with clouds.
initParallax(k, j, y) ==
    [i \in 1 .. CONFIG.parallax.cloudDensity |->
        [spawnCloud(CONFIG.parallax.patterns[((k + i) % Len(CONFIG.parallax.patterns)) + 1], y)
         EXCEPT !.x = ((i - 1) * (BASE_WIDTH \div CONFIG.parallax.cloudDensity) + j) * Scale]]

\* A forEach callback of checkCollisions without the phase test: every
\* overlapping obstacle sets off an explosion.
collideUnguarded(acc, pm, obs) ==
    IF hits(pm, obs)
    THEN [phase |-> "DYING",
          dyingTimer |-> 0,
          deaths |-> acc.deaths + 1,
          particles |-> spawnExplosion(acc.particles,
                                       (player.x + player.width \div 2) * Scale,
                                       pm.y + (player.height \div 2) * Scale)]
    ELSE acc

\* The forEach callback of checkCollisions for one obstacle: on an overlap while
\* the phase is neither GAMEOVER nor DYING, DYING, dyingTimer 0 and one
\* explosion at the player's centre.
collide(acc, pm, obs) ==
    IF hits(pm, obs) /\ acc.phase # "GAMEOVER" /\ acc.phase # "DYING"
    THEN [phase |-> "DYING",
          dyingTimer |-> 0,
          deaths |-> acc.deaths + 1,
          particles |-> spawnExplosion(acc.particles,
                                       (player.x + player.width \div 2) * Scale,
                                       pm.y + (player.height \div 2) * Scale)]
    ELSE acc

\* obstacles.forEach of checkCollisions, from the i-th obstacle on.
RECURSIVE collideFrom(_, _, _, _)
collideFrom(acc, pm, os, i) ==
    IF i > Len(os) THEN acc
    ELSE collideFrom(collide(acc, pm, os[i]), pm, os, i + 1)

\* checkCollisions(): every obstacle in list order against the player.
checkCollisions(w, pm, os, ps) ==
    collideFrom([phase |-> w.phase, dyingTimer |-> w.state.dyingTimer,
                 deaths |-> w.state.deaths, particles |-> ps], pm, os, 1)

\* An obstacle spawn whose interval is the base interval plus the offset, with
\* no lower limit after the offset.
spawnDueUncapped(w, in) ==
    LET baseInterval == Max(CONFIG.obstacle.minInterval,
                            CONFIG.obstacle.spawnInterval - (w.state.score \div 100))
    IN  w.state.spawnTimer + 1 >= baseInterval + in.offset

\* updateGame(), the obstacle spawn: the timer against the current interval;
\* a due obstacle is pushed.
spawnDue(w, in) ==
    LET baseInterval == Max(CONFIG.obstacle.minInterval,
                            CONFIG.obstacle.spawnInterval - (w.state.score \div 100))
        currentInterval == Max(CONFIG.obstacle.minInterval, baseInterval + in.offset)
    IN  w.state.spawnTimer + 1 >= currentInterval

spawnIfDue(w, in) ==
    IF spawnDue(w, in) THEN Append(w.obstacles, spawnObstacle(obstaclePatterns[in.config]))
    ELSE w.obstacles

\* updateGame(), the obstacle loop: every obstacle moves; one past the left
\* edge is marked dead.
obstacleLoop(os, gameSpeed, tick) ==
    [i \in 1 .. Len(os) |-> moveObstacle(os[i], gameSpeed, tick)]

\* updateGame(), updateClouds: the clouds move, the dead ones go, a due cloud
\* is pushed.
updateClouds(w, in) ==
    LET moved == SelectSeq([i \in 1 .. Len(w.clouds) |-> moveCloud(w.clouds[i])], Alive)
    IN  IF w.state.cloudSpawnTimer + 1 >= CONFIG.parallax.spawnInterval
        THEN Append(moved, spawnCloud(CONFIG.parallax.patterns[in.cloudPattern], in.cloudY))
        ELSE moved

\* An update that scores the obstacles marked dead but leaves them in the list.
settleGameUnfiltered(w, in, pm, updated, checked) ==
    LET passed == Len(SelectSeq(updated, LAMBDA o : o.dead))
        score == w.state.score + 10 * passed
        cloudDue == w.state.cloudSpawnTimer + 1 >= CONFIG.parallax.spawnInterval
    IN  [phase |-> checked.phase,
         frameCount |-> w.frameCount,
         state |-> [w.state EXCEPT
                       !.score = IF w.frameCount % 6 = 0 THEN score + 1 ELSE score,
                       !.spawnTimer = IF spawnDue(w, in) THEN 0 ELSE @ + 1,
                       !.cloudSpawnTimer = IF cloudDue THEN 0 ELSE @ + 1,
                       !.gameSpeed = @ + CONFIG.obstacle.speedIncrease,
                       !.dyingTimer = checked.dyingTimer,
                       !.deaths = checked.deaths],
         obstacles |-> updated,
         clouds |-> updateClouds(w, in),
         particles |-> checked.particles,
         playerMotion |-> pm]

\* updateGame(), from the obstacle loop on: +10 for every obstacle marked dead,
\* the filter, the collisions, the difficulty, +1 on every sixth frame.
settleGame(w, in, pm, updated, checked) ==
    LET passed == Len(SelectSeq(updated, LAMBDA o : o.dead))
        score == w.state.score + 10 * passed
        cloudDue == w.state.cloudSpawnTimer + 1 >= CONFIG.parallax.spawnInterval
    IN  [phase |-> checked.phase,
         frameCount |-> w.frameCount,
         state |-> [w.state EXCEPT
                       !.score = IF w.frameCount % 6 = 0 THEN score + 1 ELSE score,
                       !.spawnTimer = IF spawnDue(w, in) THEN 0 ELSE @ + 1,
                       !.cloudSpawnTimer = IF cloudDue THEN 0 ELSE @ + 1,
                       !.gameSpeed = @ + CONFIG.obstacle.speedIncrease,
                       !.dyingTimer = checked.dyingTimer,
                       !.deaths = checked.deaths],
         obstacles |-> SelectSeq(updated, Alive),
         clouds |-> updateClouds(w, in),
         particles |-> checked.particles,
         playerMotion |-> pm]

collideGame(w, in, pm, updated, ps) ==
    settleGame(w, in, pm, updated, checkCollisions(w, pm, SelectSeq(updated, Alive), ps))

\* updateGame(): clouds, player, obstacle spawn, obstacle loop and filter,
\* particles, collisions, difficulty, score.  w.frameCount is this frame's.
updateGame(w, in) ==
    collideGame(w, in,
                updatePlayerMotion(w.playerMotion, in.jump),
                obstacleLoop(spawnIfDue(w, in), w.state.gameSpeed, w.frameCount),
                updateParticles(w.particles, w.frameCount, in.kept))

\* A draw() whose DYING branch resumes play once the particles are gone.
drawFrameResuming(w, in, cfg) ==
    LET ticked == [w EXCEPT !.frameCount = @ + 1]
    IN  IF w.phase = "PLAYING" THEN updateGame(ticked, in)
        ELSE IF w.phase = "DYING"
        THEN LET ps == updateParticles(w.particles, ticked.frameCount, in.kept)
             IN  [ticked EXCEPT !.state.dyingTimer = @ + 1,
                                !.particles = ps,
                                !.phase = IF Len(ps) = 0 THEN "PLAYING" ELSE @]
        ELSE ticked

\* A draw() that waits for MAX_WAIT only and shows the overlay on every frame
\* from then on.
drawFrameTimeoutOnly(w, in, cfg) ==
    LET ticked == [w EXCEPT !.frameCount = @ + 1]
    IN  IF w.phase = "PLAYING" THEN updateGame(ticked, in)
        ELSE LET timer == w.state.dyingTimer + 1
                 ps == updateParticles(w.particles, ticked.frameCount, in.kept)
                 over == timer >= cfg.MAX_WAIT
             IN  [ticked EXCEPT !.state.dyingTimer = timer,
                                !.particles = ps,
                                !.phase = IF over THEN "GAMEOVER" ELSE @,
                                !.state.shown = IF over THEN @ + 1 ELSE @,
                                !.state.overlay = IF over THEN "visible" ELSE @]

\* A draw() whose DYING and GAMEOVER frames keep the obstacles scrolling.
drawFrameScrolling(w, in, cfg) ==
    LET ticked == [w EXCEPT !.frameCount = @ + 1,
                            !.obstacles = IF w.phase = "PLAYING" THEN @
                                          ELSE obstacleLoop(@, w.state.gameSpeed, 0)]
    IN  IF w.phase = "PLAYING" THEN updateGame(ticked, in)
        ELSE IF w.phase = "DYING"
        THEN LET timer == w.state.dyingTimer + 1
                 ps == updateParticles(w.particles, ticked.frameCount, in.kept)
                 over == (Len(ps) = 0 /\ timer >= cfg.MIN_DELAY) \/ timer >= cfg.MAX_WAIT
             IN  [ticked EXCEPT !.state.dyingTimer = timer,
                                !.particles = ps,
                                !.phase = IF over THEN "GAMEOVER" ELSE @,
                                !.state.shown = IF over THEN @ + 1 ELSE @,
                                !.state.overlay = IF over THEN "visible" ELSE @]
        ELSE ticked

\* draw() up to renderGame: the tick, then updateGame while PLAYING; while DYING
\* the timer, the particles, and GAMEOVER with showGameOver once the particles
\* are done after MIN_DELAY or MAX_WAIT is reached; nothing while GAMEOVER.
drawFrame(w, in, cfg) ==
    LET ticked == [w EXCEPT !.frameCount = @ + 1]
    IN  IF w.phase = "PLAYING" THEN updateGame(ticked, in)
        ELSE IF w.phase = "DYING"
        THEN LET timer == w.state.dyingTimer + 1
                 ps == updateParticles(w.particles, ticked.frameCount, in.kept)
                 minDelayPassed == timer >= cfg.MIN_DELAY
                 particlesDone == Len(ps) = 0
                 maxWaitReached == timer >= cfg.MAX_WAIT
                 over == (particlesDone /\ minDelayPassed) \/ maxWaitReached
             IN  [ticked EXCEPT !.state.dyingTimer = timer,
                                !.particles = ps,
                                !.phase = IF over THEN "GAMEOVER" ELSE @,
                                !.state.shown = IF over THEN @ + 1 ELSE @,
                                !.state.overlay = IF over THEN "visible" ELSE @]
        ELSE ticked

\* An initGame() that keeps the particles of the last life.
initGameKeepingParticles(w, k, j, y) ==
    [phase |-> "PLAYING",
     frameCount |-> 0,
     state |-> [w.state EXCEPT !.score = 0, !.spawnTimer = 0, !.cloudSpawnTimer = 0,
                               !.gameSpeed = Scale, !.runs = @ + 1],
     obstacles |-> <<>>,
     clouds |-> initParallax(k, j, y),
     particles |-> w.particles,
     playerMotion |-> setupPlayer]

\* initGame(): score, phase, counters and speed reset (dyingTimer is not), the
\* player set up, no obstacle, no particle, fresh clouds.
initGame(w, k, j, y) ==
    [phase |-> "PLAYING",
     frameCount |-> 0,
     state |-> [w.state EXCEPT !.score = 0, !.spawnTimer = 0, !.cloudSpawnTimer = 0,
                               !.gameSpeed = Scale, !.runs = @ + 1],
     obstacles |-> <<>>,
     clouds |-> initParallax(k, j, y),
     particles |-> <<>>,
     playerMotion |-> setupPlayer]

\* The page's game state as one record.
World ==
    [phase |-> phase, frameCount |-> frameCount, state |-> state, obstacles |-> obstacles,
     clouds |-> clouds, particles |-> particles, playerMotion |-> playerMotion]

\* The two obstacle configs the run draws from: the lowest and the tallest box.
RunConfigs == {1, 3}

\* The inputs and random draws of one frame: touch or SPACE, the spawn offset,
\* the obstacle config, the cloud, and how many particles the helper keeps (none or all).
Inputs(w) ==
    [jump : BOOLEAN, offset : SpawnOffsets, config : RunConfigs, cloudPattern : {1},
     cloudY : CloudHeights,
     kept : {0, Len(w.particles)}]

\* MIN_DELAY and MAX_WAIT: a delay shorter than the wait, one just below it
\* and one beyond it.
GameOverConfigs ==
    {[MIN_DELAY |-> 1, MAX_WAIT |-> 4],
     [MIN_DELAY |-> 3, MAX_WAIT |-> 4],
     [MIN_DELAY |-> 5, MAX_WAIT |-> 3]}

\* createGameState({...}) before the first initGame; shown, deaths and runs are
\* history: calls of showGameOver, lives ended, calls of initGame.
BlankState ==
    [score |-> 0, spawnTimer |-> 0, cloudSpawnTimer |-> 0, gameSpeed |-> Scale,
     dyingTimer |-> 0, overlay |-> "hidden", shown |-> 0, deaths |-> 0, runs |-> -1]

\* setup(): the renderer with its cache, then initGame().
InitRun ==
    /\ GAMEOVER_CONFIG \in GameOverConfigs
    /\ \E w \in {initGame([state |-> BlankState, particles |-> <<>>], 0, 0, 100)} :
           /\ phase = w.phase
           /\ frameCount = w.frameCount
           /\ state = w.state
           /\ obstacles = w.obstacles
           /\ clouds = w.clouds
           /\ particles = w.particles
           /\ playerMotion = w.playerMotion
    /\ \E built \in {GradientCache(MaxCacheSize, RendererPalette, 1, 1, [seed |-> 1])} :
           /\ maskedRenderer = SimpleGradientRenderer(TRUE)
           /\ cache = built.cache
           /\ perlin = built.perlin
    /\ twin = NoInstance
    /\ ret = NoCall
    /\ gol = NoGol
    /\ pre = gol
    /\ afterStep = gol.current
    /\ seed = NoDims
    /\ drawn = {}

\* draw(): one frame.  The first life is followed for MaxRunFrame frames, a
\* life after a restart for MaxRerunFrame frames.
runDraw ==
    /\ frameCount < (IF state.runs = 0 THEN MaxRunFrame ELSE MaxRerunFrame)
    /\ \E in \in Inputs(World) :
         \E w \in {drawFrame(World, in, GAMEOVER_CONFIG)} :
             /\ phase' = w.phase
             /\ frameCount' = w.frameCount
             /\ state' = w.state
             /\ obstacles' = w.obstacles
             /\ clouds' = w.clouds
             /\ particles' = w.particles
             /\ playerMotion' = w.playerMotion
    /\ drawn' = renderGame(clouds', obstacles')
    /\ maskedRenderer' = updateAnimation(maskedRenderer)
    /\ ret' = Call("draw", <<>>, FALSE, <<>>, 0)
    /\ UNCHANGED <<gol, pre, afterStep, seed, GAMEOVER_CONFIG, cache, twin, perlin>>

\* A click on the visible game-over overlay: the overlay is hidden, initGame().
Restart ==
    /\ state.overlay = "visible"
    /\ state.runs < MaxRestarts
    /\ \E w \in {initGame([World EXCEPT !.state.overlay = "hidden"], 0, 0, 100)} :
           /\ phase' = w.phase
           /\ frameCount' = w.frameCount
           /\ state' = w.state
           /\ obstacles' = w.obstacles
           /\ clouds' = w.clouds
           /\ particles' = w.particles
           /\ playerMotion' = w.playerMotion
    /\ ret' = Call("initGame", <<>>, FALSE, <<>>, 0)
    /\ UNCHANGED <<gol, pre, afterStep, seed, drawn, maskedRenderer, GAMEOVER_CONFIG,
                   cache, twin, perlin>>

NextRun == runDraw \/ Restart

SpecRun == InitRun /\ [][NextRun]_vars

\* ------------------------------------------------ claims about one life
\* C29: the phase changes only from PLAYING to DYING and from DYING to GAMEOVER,
\* both inside draw(), and to PLAYING through initGame(); so never from PLAYING
\* straight to GAMEOVER, never from DYING back to PLAYING without initGame(), and
\* GAMEOVER is left only through initGame().
C29_PhaseTransitions ==
    [][/\ phase' # phase =>
            \/ phase = "PLAYING" /\ phase' = "DYING" /\ ret'.op = "draw"
            \/ phase = "DYING" /\ phase' = "GAMEOVER" /\ ret'.op = "draw"
            \/ phase' = "PLAYING" /\ ret'.op = "initGame"
       /\ ret'.op = "initGame" => phase' = "PLAYING"]_vars

\* A second life: the first one went through DYING and GAMEOVER and was
\* restarted.
C29_Witness ==
    /\ phase = "PLAYING"
    /\ state.runs = 1
    /\ state.deaths = 1
    /\ state.shown = 1
    /\ frameCount > 0

\* C30: dyingTimer is 0 on entering DYING and counts one per DYING frame; the
\* frame's draw() moves DYING to GAMEOVER exactly when, after its particle
\* update, (no particle is left and dyingTimer >= MIN_DELAY) or dyingTimer >=
\* MAX_WAIT, so in the first such frame and in no earlier one; showGameOver()
\* runs in that frame only, once per death.
C30_DyingToGameOver ==
    [][/\ (phase = "PLAYING" /\ phase' = "DYING") => state'.dyingTimer = 0
       /\ (phase = "DYING" /\ ret'.op = "draw") =>
            /\ state'.dyingTimer = state.dyingTimer + 1
            /\ phase' \in {"DYING", "GAMEOVER"}
            /\ phase' = "GAMEOVER" <=>
                 \/ Len(particles') = 0 /\ state'.dyingTimer >= GAMEOVER_CONFIG.MIN_DELAY
                 \/ state'.dyingTimer >= GAMEOVER_CONFIG.MAX_WAIT
            /\ state'.shown = state.shown + (IF phase' = "GAMEOVER" THEN 1 ELSE 0)
       /\ phase # "DYING" => state'.shown = state.shown
       /\ phase' = "GAMEOVER" => state'.shown = state'.deaths /\ state'.overlay = "visible"
       /\ phase' = "DYING" => state'.shown = state'.deaths - 1]_vars

\* The game is over because the particles were done after MIN_DELAY, two
\* frames into DYING at the least and before MAX_WAIT.
C30_Witness ==
    /\ phase = "GAMEOVER"
    /\ Len(particles) = 0
    /\ state.dyingTimer >= GAMEOVER_CONFIG.MIN_DELAY
    /\ state.dyingTimer < GAMEOVER_CONFIG.MAX_WAIT
    /\ state.dyingTimer > 1
    /\ state.shown = 1

\* C21: a PLAYING frame ends in DYING exactly when, at the frame's positions,
\* the player's rectangle overlaps the hitbox of an obstacle, so the first
\* overlapping frame is the frame of death; from there dyingTimer counts the
\* DYING frames from 0 and the phase is GAMEOVER no later than the frame in
\* which it reaches MAX_WAIT, with or without particles left.
C21_SingleLife ==
    [][/\ (phase = "PLAYING" /\ ret'.op = "draw") =>
            /\ phase' \in {"PLAYING", "DYING"}
            /\ phase' = "DYING" <=>
                 \E i \in 1 .. Len(obstacles') :
                    LET o == obstacles'[i]
                    IN  /\ player.x * Scale < o.x + o.hitboxOffsetX + o.hitboxWidth
                        /\ (player.x + player.width) * Scale > o.x + o.hitboxOffsetX
                        /\ playerMotion'.y < o.y + o.hitboxOffsetY + o.hitboxHeight
                        /\ playerMotion'.y + player.height * Scale > o.y + o.hitboxOffsetY
            /\ phase' = "DYING" => state'.dyingTimer = 0 /\ state'.deaths = state.deaths + 1
       /\ (phase = "DYING" /\ ret'.op = "draw") =>
            /\ state'.dyingTimer = state.dyingTimer + 1
            /\ state'.dyingTimer >= GAMEOVER_CONFIG.MAX_WAIT => phase' = "GAMEOVER"
       /\ phase' = "DYING" => state'.dyingTimer < GAMEOVER_CONFIG.MAX_WAIT]_vars

\* The game is over at MAX_WAIT with all eight particles still there.
C21_Witness ==
    /\ phase = "GAMEOVER"
    /\ Len(particles) = 8
    /\ state.dyingTimer = GAMEOVER_CONFIG.MAX_WAIT
    /\ state.deaths = 1

\* C24: draw() raises state.frameCount by one; initGame() sets it back to 0 and
\* drops every obstacle and particle with it, so that no automaton instance is
\* ever given a tick that is not larger than each tick it was given before:
\* every particle's ticks were increasing, the last one is at most the current
\* frameCount, and the still-life obstacles are given none.
C24_TicksIncrease ==
    [][/\ ret'.op = "draw" => frameCount' = frameCount + 1
       /\ ret'.op = "initGame" =>
            frameCount' = 0 /\ particles' = <<>> /\ obstacles' = <<>>
       /\ \A i \in 1 .. Len(particles') :
            /\ particles'[i].ordered
            /\ particles'[i].lastTick <= frameCount'
            /\ (phase = "DYING" /\ ret'.op = "draw") =>
                   particles'[i].lastTick > particles[i].lastTick
       /\ \A i \in 1 .. Len(obstacles') : obstacles'[i].throttled = 0]_vars

\* A frame of the second life: the counter is back at 1 although the particles
\* of the first life were given ticks beyond 100, and none of them is left.
C24_Witness ==
    /\ state.runs = 1
    /\ frameCount = 1
    /\ state.deaths = 1
    /\ state.dyingTimer >= 2
    /\ particles = <<>>
    /\ obstacles = <<>>

\* C22: a draw() that starts in PLAYING adds to the score 1 when the frame's
\* frameCount is a multiple of 6 and 10 for every listed obstacle that this
\* frame moves below x = -150; no other draw() changes the score, so it never
\* decreases within a life; no obstacle below -150 or marked dead stays in the
\* list, so none is counted twice.
C22_ScoreCounts ==
    [][/\ (phase = "PLAYING" /\ ret'.op = "draw") =>
            state'.score = state.score
                + (IF frameCount' % 6 = 0 THEN 1 ELSE 0)
                + 10 * Cardinality({i \in 1 .. Len(obstacles) :
                                      obstacles[i].x + obstacles[i].vx * state.gameSpeed
                                          < -150 * Scale})
       /\ (phase # "PLAYING" /\ ret'.op = "draw") => state'.score = state.score
       /\ ret'.op = "draw" => state'.score >= state.score
       /\ \A i \in 1 .. Len(obstacles') :
            ~obstacles'[i].dead /\ obstacles'[i].x >= -150 * Scale]_vars

\* The player jumped the first obstacle and it was counted: the score is the
\* frames' share plus 10.
C22_Witness ==
    /\ phase = "PLAYING"
    /\ state.runs = 0
    /\ state.score = frameCount \div 6 + 10

\* The world with every cell of every listed obstacle's grid set to c.
Recoloured(w, c) ==
    [w EXCEPT !.obstacles =
        [i \in 1 .. Len(w.obstacles) |->
            [w.obstacles[i] EXCEPT !.gol.current = [q \in DOMAIN @ |-> c]]]]

\* The world without the obstacles' grids: phase, counters, player, particles,
\* clouds, and the obstacles' rectangles.
Geometry(w) ==
    [w EXCEPT !.obstacles =
        [i \in 1 .. Len(w.obstacles) |->
            [w.obstacles[i] EXCEPT !.gol = NoGol, !.seeded = <<>>]]]

\* C23: every listed obstacle's hitbox is 70% of its pattern box, centred in
\* it, and an obstacle keeps its box and hitbox from frame to frame; and a
\* frame drawn from the same world with the obstacles' cells all dead or all
\* alive gives the same phase, counters, player, particles and rectangles, so
\* runs that differ only in those cells take the same phase transitions.
C23_FixedHitboxes ==
    /\ [](\A in \in Inputs(World) : \A c \in {DEAD, ALIVE} :
            Geometry(drawFrame(Recoloured(World, c), in, GAMEOVER_CONFIG))
                = Geometry(drawFrame(World, in, GAMEOVER_CONFIG)))
    /\ [][\A j \in 1 .. Len(obstacles') :
            LET o == obstacles'[j]
            IN  /\ o.width = o.gol.cols * o.cellSize
                /\ o.height = o.gol.rows * o.cellSize
                /\ 10 * o.hitboxWidth = 7 * o.width * Scale
                /\ 10 * o.hitboxHeight = 7 * o.height * Scale
                /\ 2 * o.hitboxOffsetX + o.hitboxWidth = o.width * Scale
                /\ 2 * o.hitboxOffsetY + o.hitboxHeight = o.height * Scale
                /\ \A i \in 1 .. Len(obstacles) :
                      obstacles[i].age + 1 = o.age =>
                          /\ o.width = obstacles[i].width
                          /\ o.height = obstacles[i].height
                          /\ o.hitboxWidth = obstacles[i].hitboxWidth
                          /\ o.hitboxHeight = obstacles[i].hitboxHeight
                          /\ o.hitboxOffsetX = obstacles[i].hitboxOffsetX
                          /\ o.hitboxOffsetY = obstacles[i].hitboxOffsetY]_vars

\* The player's rectangle overlaps an alive cell of an obstacle outside its
\* hitbox, and the life goes on.
C23_Witness ==
    /\ phase = "PLAYING"
    /\ \E i \in 1 .. Len(obstacles) :
          /\ obstacles[i].age > 1
          /\ \E q \in AliveCells(obstacles[i].gol.current) :
                rectRect(player.x * Scale, playerMotion.y,
                         player.width * Scale, player.height * Scale,
                         obstacles[i].x + q[1] * obstacles[i].cellSize * Scale,
                         obstacles[i].y + q[2] * obstacles[i].cellSize * Scale,
                         obstacles[i].cellSize * Scale, obstacles[i].cellSize * Scale)

\* C31: particles are added only by the frame that moves PLAYING to DYING, and
\* it leaves exactly 8; there is at most one death per initGame(); and
\* checkCollisions on the same positions with every obstacle listed twice, so
\* that an overlap is an overlap with several hitboxes, still adds 8 particles
\* when the phase is PLAYING and none when it is DYING or GAMEOVER.
C31_OneExplosionPerRun ==
    [][/\ state'.deaths <= state'.runs + 1
       /\ (phase = "PLAYING" /\ phase' = "DYING") =>
              Len(particles') = 8 /\ state'.deaths = state.deaths + 1
       /\ ~(phase = "PLAYING" /\ phase' = "DYING") =>
              Len(particles') <= Len(particles) /\ state'.deaths = state.deaths
       /\ \A p \in {"PLAYING", "DYING", "GAMEOVER"} :
            \E r \in {checkCollisions([World EXCEPT !.phase = p], playerMotion,
                                      obstacles \o obstacles, <<>>)} :
                /\ Len(r.particles) = IF p = "PLAYING" /\ r.phase = "DYING" THEN 8 ELSE 0
                /\ r.deaths = state.deaths + Len(r.particles) \div 8
                /\ r.phase \in {p, "DYING"}]_vars

\* A later frame of DYING: the player still overlaps the obstacle's hitbox and
\* the 8 particles of the one explosion are all there is.
C31_Witness ==
    /\ phase = "DYING"
    /\ state.dyingTimer >= 2
    /\ state.deaths = 1
    /\ Len(particles) = 8
    /\ \E i \in 1 .. Len(obstacles) :
          rectRect(player.x * Scale, playerMotion.y,
                   player.width * Scale, player.height * Scale,
                   obstacles[i].x + obstacles[i].hitboxOffsetX,
                   obstacles[i].y + obstacles[i].hitboxOffsetY,
                   obstacles[i].hitboxWidth, obstacles[i].hitboxHeight)

\* C32: a draw() that starts in DYING or GAMEOVER leaves the score, gameSpeed,
\* the spawn timers, the obstacles, the clouds and the player as they were; it
\* changes frameCount, and in DYING dyingTimer, the particles and the phase
\* (with the overlay shown on GAMEOVER); in GAMEOVER the particles, dyingTimer
\* and the phase stay too.
C32_FrozenWorld ==
    [][(phase \in {"DYING", "GAMEOVER"} /\ ret'.op = "draw") =>
            /\ frameCount' = frameCount + 1
            /\ state'.score = state.score
            /\ state'.gameSpeed = state.gameSpeed
            /\ state'.spawnTimer = state.spawnTimer
            /\ state'.cloudSpawnTimer = state.cloudSpawnTimer
            /\ obstacles' = obstacles
            /\ clouds' = clouds
            /\ playerMotion' = playerMotion
            /\ state' = [state EXCEPT !.dyingTimer = state'.dyingTimer,
                                      !.shown = state'.shown,
                                      !.overlay = state'.overlay]
            /\ phase = "GAMEOVER" =>
                  /\ particles' = particles
                  /\ state' = state
                  /\ phase' = "GAMEOVER"]_vars

\* Frames were drawn after the game was over: the 8 particles still carry the
\* tick of the last DYING frame, and the obstacle that was hit is where it was.
C32_Witness ==
    /\ phase = "GAMEOVER"
    /\ Len(particles) = 8
    /\ particles[1].lastTick + 2 <= frameCount
    /\ Len(obstacles) > 0
    /\ state.gameSpeed > Scale

\* ------------------------------------------------ the obstacle spawn timer
\* The scores a life can have when the spawn is decided: the start, around the
\* score at which the base interval reaches minInterval, and far beyond it.
StartScores == {0, 4890, 4999, 20000}

\* random(-intervalVariability, intervalVariability): both ends, the middle and
\* one more.
WideSpawnOffsets ==
    {-CONFIG.obstacle.intervalVariability, -7, 0, CONFIG.obstacle.intervalVariability}

\* initGame() with the timers at 0; the score of a later stage of the life is
\* put in place of the frames that lead to it.
InitSpawn ==
    /\ \E s \in StartScores :
          state = [score |-> s, spawnTimer |-> 0, cloudSpawnTimer |-> 0, gameSpeed |-> Scale]
    /\ obstacles = <<>>
    /\ clouds = <<>>
    /\ particles = <<>>
    /\ playerMotion = NoMotion
    /\ maskedRenderer = NoRenderer
    /\ GAMEOVER_CONFIG = NoConfig
    /\ phase = "PLAYING"
    /\ frameCount = 0
    /\ cache = NoInstance
    /\ twin = NoInstance
    /\ perlin = [seed |-> 0]
    /\ ret = Call("initGame", <<>>, FALSE, <<0>>, 0)
    /\ gol = NoGol
    /\ pre = gol
    /\ afterStep = gol.current
    /\ seed = NoDims
    /\ drawn = {}

\* One PLAYING frame as the spawn timer sees it: frameCount++, spawnTimer++, the
\* interval from the score and this frame's random offset, the spawn with the
\* timer back at 0, and the frame's score point.  ret.value holds the PLAYING
\* frames since the last spawn or initGame(), this one included.
SpawnFrame ==
    /\ frameCount < MaxSpawnFrame
    /\ frameCount' = frameCount + 1
    /\ \E offset \in WideSpawnOffsets :
         \E due \in {spawnDue([state |-> state], [offset |-> offset])} :
            /\ state' = [state EXCEPT
                            !.spawnTimer = IF due THEN 0 ELSE @ + 1,
                            !.score = IF frameCount' % 6 = 0 THEN @ + 1 ELSE @]
            /\ ret' = Call(IF due THEN "spawnObstacle" ELSE "updateGame", <<>>, FALSE,
                           <<IF ret.op = "spawnObstacle" THEN 1 ELSE ret.value[1] + 1>>, 0)
    /\ UNCHANGED <<phase, gol, pre, afterStep, drawn, seed, obstacles, clouds, particles,
                   playerMotion, maskedRenderer, GAMEOVER_CONFIG, cache, twin, perlin>>

NextSpawn == SpawnFrame

SpecSpawn == InitSpawn /\ [][NextSpawn]_vars

\* C33: a frame spawns an obstacle only when at least minInterval PLAYING
\* frames have passed since the last spawn, or since initGame() for the first,
\* whatever the score and the offsets drawn; the spawn leaves spawnTimer at 0,
\* and between spawns the timer is the number of those frames.
C33_SpawnInterval ==
    /\ ret.op = "spawnObstacle" =>
          /\ ret.value[1] >= CONFIG.obstacle.minInterval
          /\ state.spawnTimer = 0
    /\ ret.op = "updateGame" => state.spawnTimer = ret.value[1]
    /\ CONFIG.obstacle.minInterval = 50

\* A spawn exactly minInterval frames after the one before it, at a score
\* where the base interval is still above minInterval.
C33_Witness ==
    /\ ret.op = "spawnObstacle"
    /\ ret.value[1] = CONFIG.obstacle.minInterval
    /\ frameCount > CONFIG.obstacle.minInterval
    /\ state.score < 5000

\* ------------------------------------------------ taps and jumps
\* An updatePlayer() that leaves the tap flag set when the jump starts.
updatePlayerTapHeld(pm, key) ==
    LET vy == pm.vy + CONFIG.gravity
        y == pm.y + vy
        ground == (CONFIG.groundY - 200) * Scale
        landed == y >= ground
        tap == pm.isTouching /\ landed
        space == key /\ landed /\ ~tap
    IN  [y |-> IF landed THEN ground ELSE y,
         vy |-> IF tap \/ space THEN CONFIG.jumpForce ELSE IF landed THEN 0 ELSE vy,
         onGround |-> landed /\ ~tap /\ ~space,
         isTouching |-> pm.isTouching,
         pressJumps |-> IF tap THEN pm.pressJumps + 1 ELSE pm.pressJumps,
         jumped |-> tap \/ space]

\* updatePlayer() with the tap flag: gravity, the ground, the tap jump that
\* consumes the flag, then the SPACE jump if the player is still on the ground.
\* pressJumps counts the jumps the flag has started since it was last set by a
\* press; jumped tells whether this call set vy to jumpForce.
updatePlayerTap(pm, key) ==
    LET vy == pm.vy + CONFIG.gravity
        y == pm.y + vy
        ground == (CONFIG.groundY - 200) * Scale
        landed == y >= ground
        tap == pm.isTouching /\ landed
        space == key /\ landed /\ ~tap
    IN  [y |-> IF landed THEN ground ELSE y,
         vy |-> IF tap \/ space THEN CONFIG.jumpForce ELSE IF landed THEN 0 ELSE vy,
         onGround |-> landed /\ ~tap /\ ~space,
         isTouching |-> pm.isTouching /\ ~tap,
         pressJumps |-> IF tap THEN pm.pressJumps + 1 ELSE pm.pressJumps,
         jumped |-> tap \/ space]

\* setupPlayer() and `let isTouching = false`.
InitJump ==
    /\ playerMotion = [y |-> (CONFIG.groundY - 200) * Scale, vy |-> 0, onGround |-> TRUE,
                       isTouching |-> FALSE, pressJumps |-> 0, jumped |-> FALSE]
    /\ state = [score |-> 0, spawnTimer |-> 0, cloudSpawnTimer |-> 0, gameSpeed |-> Scale]
    /\ obstacles = <<>>
    /\ clouds = <<>>
    /\ particles = <<>>
    /\ maskedRenderer = NoRenderer
    /\ GAMEOVER_CONFIG = NoConfig
    /\ phase = "PLAYING"
    /\ frameCount = 0
    /\ cache = NoInstance
    /\ twin = NoInstance
    /\ perlin = [seed |-> 0]
    /\ ret = NoCall
    /\ gol = NoGol
    /\ pre = gol
    /\ afterStep = gol.current
    /\ seed = NoDims
    /\ drawn = {}

idleForJump ==
    <<phase, frameCount, gol, pre, afterStep, drawn, seed, state, obstacles, clouds,
      particles, maskedRenderer, GAMEOVER_CONFIG, cache, twin, perlin>>

\* handleTouchStart: touchstart or mousedown on the canvas.
HandleTouchStart ==
    /\ playerMotion' = [playerMotion EXCEPT !.isTouching = TRUE, !.pressJumps = 0,
                                            !.jumped = FALSE]
    /\ ret' = Call("handleTouchStart", <<>>, FALSE, <<>>, 0)
    /\ UNCHANGED idleForJump

\* handleTouchEnd: touchend or mouseup on the canvas.
HandleTouchEnd ==
    /\ playerMotion' = [playerMotion EXCEPT !.isTouching = FALSE, !.jumped = FALSE]
    /\ ret' = Call("handleTouchEnd", <<>>, FALSE, <<>>, 0)
    /\ UNCHANGED idleForJump

\* updatePlayer() in a PLAYING frame, SPACE down or not.
UpdatePlayerTap ==
    /\ \E key \in BOOLEAN :
          /\ playerMotion' = updatePlayerTap(playerMotion, key)
          /\ ret' = Call("updatePlayer", <<key>>, FALSE, <<>>, 0)
    /\ UNCHANGED idleForJump

NextJump == HandleTouchStart \/ HandleTouchEnd \/ UpdatePlayerTap

SpecJump == InitJump /\ [][NextJump]_vars

\* C34: updatePlayer leaves vy at jumpForce only when it started a jump, and it
\* starts one only in a call whose ground step put the player on the ground
\* (y = groundY - 200) coming down or standing; the flag is down after a tap
\* jump; and since the last press the flag has started at most one jump.
C34_NoDoubleJump ==
    [][/\ ret'.op = "updatePlayer" =>
            /\ playerMotion'.vy = CONFIG.jumpForce <=> playerMotion'.jumped
            /\ playerMotion'.jumped =>
                  /\ playerMotion'.y = (CONFIG.groundY - 200) * Scale
                  /\ playerMotion.y + playerMotion.vy + CONFIG.gravity
                        >= (CONFIG.groundY - 200) * Scale
                  /\ ~playerMotion'.onGround
            /\ playerMotion'.pressJumps > playerMotion.pressJumps =>
                  playerMotion.isTouching /\ ~playerMotion'.isTouching
       /\ playerMotion'.isTouching /\ ~playerMotion.isTouching =>
            ret'.op = "handleTouchStart"
       /\ playerMotion'.pressJumps <= 1]_vars

\* The jump started by a press is over: the player has landed again, the flag
\* is down and no second jump has started.
C34_Witness ==
    /\ ret.op = "updatePlayer"
    /\ playerMotion.pressJumps = 1
    /\ playerMotion.onGround
    /\ ~playerMotion.isTouching
    /\ ~playerMotion.jumped

cacheCoordUnclamped(units, screen, cacheSize) ==
    jsRem(screen, 2 * units * cacheSize) \div (2 * units)

\* floor((screen * 0.5) % cacheSize) clamped to 0 .. cacheSize - 1, for a screen
\* coordinate given in 1/units of a pixel: the remainder keeps the sign of the
\* coordinate, floor rounds down, Math.max and Math.min clamp.
cacheCoordIn(units, screen, cacheSize) ==
    Max(0, Min(cacheSize - 1, jsRem(screen, 2 * units * cacheSize) \div (2 * units)))

\* getColor(screenX, screenY) of a cache that holds its pixels, the coordinates
\* in 1/units of a pixel.
getColorIn(units, c, screenX, screenY) ==
    [threw |-> c.cacheTexture = "null",
     value |-> IF c.cacheTexture = "null" THEN <<>>
               ELSE <<pixelAt(c.cachePixels,
                              (cacheCoordIn(units, screenX, c.cacheSize)
                               + cacheCoordIn(units, screenY, c.cacheSize) * c.cacheSize) * 4),
                      pixelAt(c.cachePixels,
                              (cacheCoordIn(units, screenX, c.cacheSize)
                               + cacheCoordIn(units, screenY, c.cacheSize) * c.cacheSize) * 4 + 1),
                      pixelAt(c.cachePixels,
                              (cacheCoordIn(units, screenX, c.cacheSize)
                               + cacheCoordIn(units, screenY, c.cacheSize) * c.cacheSize) * 4 + 2)>>]

\* Screen coordinates in quarters of a pixel, negative ones and more than one
\* period of the largest cache included.
Quarters == -MaxQuarter .. MaxQuarter

\* The vertical coordinates: above the origin between pixels, the origin, on a
\* pixel boundary, and between pixels further down.
QuarterYs == {-5, 0, 4, 9}

\* A cache of any size from 1 on.
InitLookup ==
    /\ \E size \in 1 .. MaxLookupSize :
         \E built \in {GradientCache(size, RendererPalette, 1, 1, [seed |-> 1])} :
            cache = built.cache /\ perlin = built.perlin
    /\ twin = NoInstance
    /\ ret = NoCall
    /\ gol = NoGol
    /\ pre = gol
    /\ afterStep = gol.current
    /\ seed = NoDims
    /\ drawn = {}
    /\ phase = "PLAYING"
    /\ frameCount = 0
    /\ NoGame

\* cache.getColor at a coordinate on or off the pixel grid.
GetColorIn ==
    /\ \E screenX \in Quarters, screenY \in QuarterYs :
         \E r \in {getColorIn(4, cache, screenX, screenY)} :
            ret' = Call("getColor", <<screenX, screenY>>, r.threw, r.value, 0)
    /\ UNCHANGED <<cache, twin, perlin, idleForCache>>

NextLookup == GetColorIn

SpecLookup == InitLookup /\ [][NextLookup]_vars

\* C36: on a cache of size >= 1 that holds its pixels, getColor at any screen
\* coordinate, negative or between pixels, returns without throwing the three
\* stored channels of one pixel (x, y) with x and y in 0 .. size - 1, all of
\* them inside the pixel buffer; on whole pixels the coordinates are the ones
\* of the whole-pixel lookup.
C36_LookupInBounds ==
    ret.op = "getColor" =>
        /\ ~ret.threw
        /\ Len(cache.cachePixels) = cache.cacheSize * cache.cacheSize * 4
        /\ \E x \in 0 .. cache.cacheSize - 1, y \in 0 .. cache.cacheSize - 1 :
              /\ (x + y * cache.cacheSize) * 4 + 2 < Len(cache.cachePixels)
              /\ ret.value = <<cache.cachePixels[(x + y * cache.cacheSize) * 4 + 1],
                               cache.cachePixels[(x + y * cache.cacheSize) * 4 + 2],
                               cache.cachePixels[(x + y * cache.cacheSize) * 4 + 3]>>
        /\ \A ch \in 1 .. 3 : ret.value[ch] \in 0 .. 255
        /\ (ret.args[1] % 4 = 0 /\ ret.args[2] % 4 = 0) =>
              ret.value = getColor(cache, ret.args[1] \div 4, ret.args[2] \div 4).value

\* A lookup left of and above the origin and between pixels, on a cache of
\* more than one pixel.
C36_Witness ==
    /\ ret.op = "getColor"
    /\ cache.cacheSize > 1
    /\ ret.args[1] < -4 /\ ret.args[1] % 4 # 0
    /\ ret.args[2] < 0 /\ ret.args[2] % 4 # 0
    /\ ~ret.threw

\* C37: the fill and rect commands of a renderMaskedGrid call are those of the
\* same call with any other gradientConfig: the same rectangles in the same
\* order with the same fill colours.
C37_GradientConfigIgnored ==
    ret.op = "renderMaskedGrid" =>
        \A gradientConfig \in GradientConfigs :
            renderMaskedGridWith(maskedRenderer, cache, perlin, gol,
                                 ret.args[1], ret.args[2], ret.args[3], gradientConfig)
                = drawn

\* A call with ENEMY_COLD that drew two cells or more, in colours that are not
\* the preset's.
C37_Witness ==
    /\ ret.op = "renderMaskedGrid"
    /\ ret.args[4].name = "ENEMY_COLD"
    /\ Len(drawn) >= 2
    /\ \A i \in 1 .. Len(drawn) : drawn[i].fill \notin
          {<<2 * ret.args[4].palette[k][1], 2 * ret.args[4].palette[k][2],
             2 * ret.args[4].palette[k][3]>> : k \in 1 .. 2}

\* The life of one renderer: colours are asked of it and it is disposed, in
\* any order and any number of times.
NextDispose == GetGradientColor \/ DisposeRenderer

SpecDispose == InitRenderer /\ [][NextDispose]_vars

\* C38: getGradientColor takes the cached path exactly when useCache is true
\* and the renderer holds a cache, and that cache then has its pixels; in every
\* other case, after dispose() in particular, it takes the runtime path; it
\* never throws.  dispose() leaves the renderer without a cache, and a
\* dispose() without a cache changes nothing.
C38_DisposedCacheNotRead ==
    [][/\ ret'.op = "getGradientColor" =>
            /\ ~ret'.threw
            /\ ret'.sampled = 0 <=> (maskedRenderer.useCache /\ cache.exists)
            /\ ret'.sampled = 0 => cache.cacheTexture # "null"
            /\ ret'.sampled # 0 =>
                  ret'.value = getGradientColorRuntime(maskedRenderer.palette, perlin,
                                                       ret'.args[1], ret'.args[2],
                                                       maskedRenderer.animationOffset)
            /\ \A ch \in 1 .. 3 : ret'.value[ch] # undefined
       /\ ret'.op = "dispose" =>
            /\ ~cache'.exists
            /\ cache'.cacheTexture = "null"
            /\ ~cache.exists => cache' = cache
            /\ maskedRenderer' = maskedRenderer]_vars

\* A colour asked of a renderer built with useCache after its cache was
\* disposed: it came from the runtime path.
C38_Witness ==
    /\ ret.op = "getGradientColor"
    /\ maskedRenderer.useCache
    /\ ~cache.exists
    /\ cache.cacheSize > 0
    /\ cache.cacheTexture = "null"
    /\ ret.sampled = 1
    /\ ~ret.threw

====
